---- MODULE Spec2Model ----
(***************************************************************************)
(* Larga story tracker: the Express server of server.js as a state machine *)
(* over the projects tree on disk, together with the upload of the         *)
(* single-project server that the repository also holds and whose layout   *)
(* the startup migration moves.  One action per request handler; the state *)
(* is the file system under PROJECTS_DIR, the legacy layout, the wall      *)
(* clock, the number of requests served and the last response; for the     *)
(* requests and the migration taken one file operation at a time, the      *)
(* position and the local copy of each writer and the position of the      *)
(* migration; the browser page of project-utils.js; the last document      *)
(* classified by document-types.js.                                        *)
(***************************************************************************)
EXTENDS Integers, Sequences, FiniteSets, TLC

VARIABLES projects, legacy, now, openai, served, last, writers, migration,
          browser, classification

vars == <<projects, legacy, now, openai, served, last, writers, migration,
          browser, classification>>

(***************************************************************************)
(* Bounds of the model.                                                    *)
(***************************************************************************)
MaxRequests == 2

(***************************************************************************)
(* Optional values: a JavaScript value that may be undefined / a file that *)
(* may not exist is a sequence of length 0 (absent) or 1 (present).        *)
(***************************************************************************)
None == <<>>
Some(x) == <<x>>
IsSome(o) == Len(o) = 1
Get(o) == o[1]

Range(s) == {s[i] : i \in 1..Len(s)}

(***************************************************************************)
(* Strings that the code takes apart are sequences of one-character        *)
(* strings.                                                                *)
(***************************************************************************)
UpperCase == <<"A","B","C","D","E","F","G","H","I","J","K","L","M",
               "N","O","P","Q","R","S","T","U","V","W","X","Y","Z">>
LowerCase == <<"a","b","c","d","e","f","g","h","i","j","k","l","m",
               "n","o","p","q","r","s","t","u","v","w","x","y","z">>
Digits == {"0","1","2","3","4","5","6","7","8","9"}
WhiteSpace == {" "}

\* String.prototype.toLowerCase, one character
ToLowerChar(c) ==
  IF \E i \in 1..26 : UpperCase[i] = c
    THEN LowerCase[CHOOSE i \in 1..26 : UpperCase[i] = c]
    ELSE c

ToLowerCase(s) == [i \in 1..Len(s) |-> ToLowerChar(s[i])]

\* String.prototype.trim
RECURSIVE TrimStart(_)
TrimStart(s) ==
  IF s # <<>> /\ Head(s) \in WhiteSpace THEN TrimStart(Tail(s)) ELSE s

RECURSIVE TrimEnd(_)
TrimEnd(s) ==
  IF s # <<>> /\ s[Len(s)] \in WhiteSpace
    THEN TrimEnd(SubSeq(s, 1, Len(s) - 1))
    ELSE s

Trim(s) == TrimEnd(TrimStart(s))

\* the character class [a-z0-9]
IsAlnum(c) == c \in Range(LowerCase) \cup Digits

\* .replace(/[^a-z0-9]+/g, '-'): every maximal run of other characters
\* becomes one hyphen
RECURSIVE ReplaceRuns(_, _)
ReplaceRuns(s, inRun) ==
  IF s = <<>> THEN <<>>
  ELSE IF IsAlnum(Head(s)) THEN <<Head(s)>> \o ReplaceRuns(Tail(s), FALSE)
  ELSE IF inRun THEN ReplaceRuns(Tail(s), TRUE)
  ELSE <<"-">> \o ReplaceRuns(Tail(s), TRUE)

\* .replace(/^-+|-+$/g, '')
RECURSIVE StripLeadingHyphens(_)
StripLeadingHyphens(s) ==
  IF s # <<>> /\ Head(s) = "-" THEN StripLeadingHyphens(Tail(s)) ELSE s

RECURSIVE StripTrailingHyphens(_)
StripTrailingHyphens(s) ==
  IF s # <<>> /\ s[Len(s)] = "-"
    THEN StripTrailingHyphens(SubSeq(s, 1, Len(s) - 1))
    ELSE s

\* POST /api/projects: the project id generated from the name
ProjectIdFromName(name) ==
  StripTrailingHyphens(StripLeadingHyphens(
    ReplaceRuns(ToLowerCase(Trim(name)), FALSE)))

(***************************************************************************)
(* Request inputs.                                                         *)
(***************************************************************************)
DefaultId == <<"d","e","f","a","u","l","t">>
Show == <<"m","y","-","s","h","o","w","-","2">>
EmptyString == <<>>

\* names sent to POST /api/projects
ProjectNames ==
  << <<"M","y"," ","S","h","o","w"," ","2","!">>,
     <<" ","m","y","-","-","s","h","o","w","_","2">>,
     <<"D","e","f","a","u","l","t">>,
     <<" ","!"," ">>,
     <<" "," ">> >>

NameInputs == {ProjectNames[i] : i \in 1..Len(ProjectNames)}

\* the X-Project-Id header and the projectId query parameter of a request
Requests ==
  { [header |-> None,              query |-> None],
    [header |-> Some(Show),        query |-> Some(DefaultId)],
    [header |-> Some(EmptyString), query |-> Some(Show)],
    [header |-> None,              query |-> Some(EmptyString)] }

\* a JavaScript string is truthy when it is not empty
Truthy(o) == IsSome(o) /\ Len(Get(o)) > 0

\* the same for a name kept as one string
TruthyString(o) == IsSome(o) /\ Get(o) # ""

\* a resolution that prefers the query parameter to the header
QueryFirst(req) ==
  IF Truthy(req.query) THEN Get(req.query)
  ELSE IF Truthy(req.header) THEN Get(req.header)
  ELSE DefaultId

getProjectId(req) ==
  IF Truthy(req.header) THEN Get(req.header)
  ELSE IF Truthy(req.query) THEN Get(req.query)
  ELSE DefaultId

\* getProjectPaths: a project directory is an entry of `projects`, a record
\* of its uploads directory and its three JSON files
EmptyDir == [uploads |-> {}, data |-> None, meta |-> None, settings |-> None]

\* fs.ensureDir(paths.projectDir) / fs.ensureDir(paths.uploadsDir)
ensureDir(tree, projectId) ==
  IF projectId \in DOMAIN tree THEN tree ELSE (projectId :> EmptyDir) @@ tree

\* removing a directory of the tree
RemoveDir(tree, projectId) ==
  [q \in DOMAIN tree \ {projectId} |-> tree[q]]

(***************************************************************************)
(* Files and documents.                                                    *)
(***************************************************************************)
Anna == <<"A","N","N","A">>
Zoe == <<"Z","O","E">>
The == <<"T","H","E">>
It == <<"I","T">>

\* what an uploaded file holds: whether the extraction library can read it,
\* the theme keywords its text contains, its number of words, its words
\* written in capitals and the type its indicator phrases score to
Love == [readable |-> TRUE, keywords |-> {"love"}, words |-> 5,
         capitals |-> {Zoe, Anna, The, It}, looksLike |-> "notes"]
Plain == [readable |-> TRUE, keywords |-> {}, words |-> 1,
          capitals |-> {}, looksLike |-> "document"]
Corrupt == [readable |-> FALSE, keywords |-> {}, words |-> 0,
            capitals |-> {}, looksLike |-> "document"]

\* the multipart field `document`: original name (with the date its digits
\* spell, if any), declared MIME type and content
UploadFiles ==
  { [originalname |-> [stem |-> "pitch", stamp |-> Some(1), ext |-> ".docx"],
     mimetype |->
       "application/vnd.openxmlformats-officedocument.wordprocessingml.document",
     body |-> Love],
    [originalname |-> [stem |-> "draft", stamp |-> None, ext |-> ".pdf"],
     mimetype |-> "application/pdf", body |-> Plain],
    [originalname |-> [stem |-> "broken", stamp |-> Some(1), ext |-> ".rtf"],
     mimetype |-> "text/rtf", body |-> Corrupt],
    [originalname |-> [stem |-> "keynote", stamp |-> None, ext |-> ".pages"],
     mimetype |-> "application/pdf", body |-> Plain],
    [originalname |-> [stem |-> "readme", stamp |-> None, ext |-> ".txt"],
     mimetype |-> "text/plain", body |-> Plain] }

allowedMimeTypes ==
  { "application/vnd.openxmlformats-officedocument.wordprocessingml.document",
    "application/pdf", "application/rtf", "text/rtf" }

allowedExtensions == {".docx", ".pdf", ".rtf"}

\* multer fileFilter: TRUE when the file is accepted
fileFilter(file) ==
  IF file.originalname.ext = ".pages" THEN FALSE
  ELSE file.mimetype \in allowedMimeTypes
         \/ file.originalname.ext \in allowedExtensions

\* extractTextFromFile: the text of a stored file, absent when the file is
\* missing or the extraction library throws
extractTextFromFile(uploads, filePath, filename) ==
  IF filename.ext \notin {".docx", ".pdf", ".rtf", ".pages"} THEN None
  ELSE IF filename.ext = ".pages" THEN None
  ELSE IF \E f \in uploads : f.name = filePath /\ f.body.readable
    THEN Some((CHOOSE f \in uploads : f.name = filePath).body)
    ELSE None

\* parseDocumentDate: the date spelled by the digits of the filename, the
\* current date when there is none
parseDocumentDate(filename, clock) ==
  IF IsSome(filename.stamp) THEN Get(filename.stamp) ELSE clock

themeKeywords ==
  << "identity", "masculinity", "femininity", "community", "family",
     "power", "control", "freedom", "justice", "revenge", "love",
     "betrayal", "loyalty", "ambition", "greed", "sacrifice",
     "redemption", "corruption", "truth", "deception", "survival" >>

extractThemes(text) ==
  SelectSeq(themeKeywords, LAMBDA k : k \in text.keywords)

\* Array.prototype.sort((a, b) => new Date(a.date) - new Date(b.date)):
\* a stable sort on the date
RECURSIVE InsertByDate(_, _)
InsertByDate(sorted, d) ==
  IF sorted = <<>> THEN <<d>>
  ELSE IF sorted[Len(sorted)].date <= d.date THEN Append(sorted, d)
  ELSE Append(InsertByDate(SubSeq(sorted, 1, Len(sorted) - 1), d),
              sorted[Len(sorted)])

\* the order the documents are left in when they are not sorted
KeepOrder(docs) == docs

RECURSIVE SortByDate(_)
SortByDate(docs) ==
  IF docs = <<>> THEN <<>>
  ELSE InsertByDate(SortByDate(SubSeq(docs, 1, Len(docs) - 1)),
                    docs[Len(docs)])

\* the document object built by POST /api/upload
NewDocument(file, storedName, clock) ==
  [ id |-> clock,
    filename |-> file.originalname,
    date |-> parseDocumentDate(file.originalname, clock),
    type |-> "unclassified",
    wordCount |-> file.body.words,
    characters |-> Some(<<>>),
    themes |-> Some(extractThemes(file.body)),
    filePath |-> storedName,
    aiEnhanced |-> FALSE,
    aiModel |-> None,
    episodes |-> None,
    characterActions |-> None,
    sectionActions |-> None,
    themeAppearances |-> None,
    characterOrder |-> None,
    inStoryGrid |-> FALSE,
    gridUpdatedAt |-> None ]

\* fs.writeJSON(paths.dataPath, projectData)
WriteData(tree, projectId, docs) ==
  [tree EXCEPT ![projectId].data = Some([documents |-> docs])]

\* multer diskStorage writing the file under its stored name
WriteUpload(tree, projectId, storedName, body) ==
  [tree EXCEPT ![projectId].uploads =
     {f \in @ : f.name # storedName} \cup {[name |-> storedName, body |-> body]}]

(***************************************************************************)
(* Document handlers.  Each handler is an operator from the projects tree  *)
(* and the request to the tree it leaves and the response it sends.        *)
(***************************************************************************)
Response(tree, status, projectId) ==
  [tree |-> tree, status |-> status, projectId |-> projectId,
   dest |-> projectId, sent |-> None]

\* projectData.documents.findIndex(d => d.id === req.params.id), 0 for -1
FindIndex(docs, id) ==
  IF \E i \in 1..Len(docs) : docs[i].id = id
    THEN CHOOSE i \in 1..Len(docs) :
           docs[i].id = id /\ \A j \in 1..(i - 1) : docs[j].id # id
    ELSE 0

\* documents.splice(index, 1)
Splice(docs, index) ==
  [i \in 1..(Len(docs) - 1) |-> IF i < index THEN docs[i] ELSE docs[i + 1]]

\* POST /api/upload on an accepted file, up to fs.readJSON: multer stores
\* the file at time `clock`, the handler builds the document at time `later`
\* and reads the documents of the project into its own copy
UploadRead(tree, clock, later, req, file) ==
  LET dest == getProjectId(req)
      storedName == [ts |-> clock, originalname |-> file.originalname]
      stored == WriteUpload(ensureDir(tree, dest), dest, storedName, file.body)
      text == extractTextFromFile(stored[dest].uploads, storedName,
                                  file.originalname)
      projectId == getProjectId(req)
      dir == ensureDir(stored, projectId)
  IN [ok |-> IsSome(text),
      tree |-> IF IsSome(text) THEN dir ELSE stored,
      dest |-> dest,
      projectId |-> projectId,
      document |-> NewDocument(file, storedName, later),
      copy |-> IF IsSome(dir[projectId].data)
                 THEN Get(dir[projectId].data).documents ELSE <<>>]

\* a write that reads the documents again under a lock
LockedWrite(tree, projectId, copy, document) ==
  WriteData(tree, projectId,
            SortByDate(Append(IF IsSome(tree[projectId].data)
                                THEN Get(tree[projectId].data).documents
                                ELSE <<>>,
                              document)))

\* POST /api/upload from push to fs.writeJSON: the request's copy with the
\* new document, sorted, replaces the file
UploadWrite(tree, projectId, copy, document) ==
  WriteData(tree, projectId, SortByDate(Append(copy, document)))

\* POST /api/upload on an accepted file, served without another request in
\* between
UploadAccepted(tree, clock, later, req, file) ==
  LET r == UploadRead(tree, clock, later, req, file)
  IN IF ~r.ok
       THEN [Response(r.tree, 500, r.projectId) EXCEPT !.dest = r.dest]
       ELSE [Response(UploadWrite(r.tree, r.projectId, r.copy, r.document),
                      200, r.projectId)
               EXCEPT !.dest = r.dest]

\* POST /api/upload; `upload` is the multipart field, absent when the
\* request carries none
UploadResult(tree, clock, later, req, upload) ==
  IF ~IsSome(upload) THEN Response(tree, 400, getProjectId(req))
  ELSE IF ~fileFilter(Get(upload)) THEN Response(tree, 500, getProjectId(req))
  ELSE UploadAccepted(tree, clock, later, req, Get(upload))

\* the documents of project-data.json, none when the file does not exist
ReadDocuments(tree, projectId) ==
  IF projectId \in DOMAIN tree /\ IsSome(tree[projectId].data)
    THEN Get(tree[projectId].data).documents
    ELSE <<>>

\* GET /api/documents
GetDocuments(tree, req) == ReadDocuments(tree, getProjectId(req))

\* DELETE /api/documents/:id
\* DELETE /api/documents/:id from fs.remove to fs.writeJSON: the upload file
\* goes, the request's copy without the document replaces the file
DeleteWrite(tree, projectId, copy, documentIndex) ==
  LET removed ==
        [tree EXCEPT ![projectId].uploads =
           {f \in @ : f.name # copy[documentIndex].filePath}]
  IN WriteData(removed, projectId, Splice(copy, documentIndex))

DeleteDocumentResult(tree, req, id) ==
  LET projectId == getProjectId(req)
      docs == GetDocuments(tree, req)
      documentIndex == FindIndex(docs, id)
  IN IF ~(projectId \in DOMAIN tree /\ IsSome(tree[projectId].data))
       THEN Response(tree, 404, projectId)
     ELSE IF documentIndex = 0 THEN Response(tree, 404, projectId)
     ELSE Response(DeleteWrite(tree, projectId, docs, documentIndex),
                   200, projectId)

\* the document handlers that edit one stored document share their frame:
\* 404 without data file or document, else the outcome of the edit on the
\* document found decides; `outcomes` holds that outcome for each position
EditDocument(tree, req, id, outcomes) ==
  LET projectId == getProjectId(req)
      docs == GetDocuments(tree, req)
      index == FindIndex(docs, id)
  IN IF ~(projectId \in DOMAIN tree /\ IsSome(tree[projectId].data))
       THEN Response(tree, 404, projectId)
     ELSE IF index = 0 THEN Response(tree, 404, projectId)
     ELSE LET outcome == outcomes[index]
          IN IF outcome.status = 200
               THEN Response(WriteData(tree, projectId,
                                       [docs EXCEPT ![index] = outcome.document]),
                             200, projectId)
               ELSE Response(tree, outcome.status, projectId)

Includes(list, x) == \E i \in 1..Len(list) : list[i] = x

\* POST /api/documents/:id/characters
AddCharacterEdit(document, character) ==
  LET characters == IF IsSome(document.characters)
                      THEN Get(document.characters) ELSE <<>>
  IN IF ~Includes(characters, character)
       THEN [status |-> 200,
             document |-> [document EXCEPT
                             !.characters = Some(Append(characters, character))]]
       ELSE [status |-> 400, document |-> document]

AddCharacterResult(tree, req, id, character) ==
  IF ~Truthy(character) THEN Response(tree, 400, getProjectId(req))
  ELSE EditDocument(tree, req, id,
         [k \in 1..Len(GetDocuments(tree, req)) |->
            AddCharacterEdit(GetDocuments(tree, req)[k], Get(character))])

\* DELETE /api/documents/:id/characters
RemoveCharacterEdit(document, character) ==
  IF IsSome(document.characters)
    THEN [status |-> 200,
          document |-> [document EXCEPT
                          !.characters =
                            Some(SelectSeq(Get(@), LAMBDA c : c # character))]]
    ELSE [status |-> 400, document |-> document]

RemoveCharacterResult(tree, req, id, character) ==
  IF ~Truthy(character) THEN Response(tree, 400, getProjectId(req))
  ELSE EditDocument(tree, req, id,
         [k \in 1..Len(GetDocuments(tree, req)) |->
            RemoveCharacterEdit(GetDocuments(tree, req)[k], Get(character))])

\* POST /api/documents/:id/themes
AddThemeEdit(document, theme) ==
  LET themes == IF IsSome(document.themes) THEN Get(document.themes) ELSE <<>>
  IN IF ~Includes(themes, theme)
       THEN [status |-> 200,
             document |-> [document EXCEPT
                             !.themes = Some(Append(themes, theme))]]
       ELSE [status |-> 400, document |-> document]

AddThemeResult(tree, req, id, theme) ==
  IF ~TruthyString(theme) THEN Response(tree, 400, getProjectId(req))
  ELSE EditDocument(tree, req, id,
         [k \in 1..Len(GetDocuments(tree, req)) |->
            AddThemeEdit(GetDocuments(tree, req)[k], Get(theme))])

\* DELETE /api/documents/:id/themes
RemoveThemeEdit(document, theme) ==
  IF IsSome(document.themes)
    THEN [status |-> 200,
          document |-> [document EXCEPT
                          !.themes =
                            Some(SelectSeq(Get(@), LAMBDA t : t # theme))]]
    ELSE [status |-> 400, document |-> document]

RemoveThemeResult(tree, req, id, theme) ==
  IF ~TruthyString(theme) THEN Response(tree, 400, getProjectId(req))
  ELSE EditDocument(tree, req, id,
         [k \in 1..Len(GetDocuments(tree, req)) |->
            RemoveThemeEdit(GetDocuments(tree, req)[k], Get(theme))])

(***************************************************************************)
(* AI analysis.                                                            *)
(***************************************************************************)
\* the keys of DOCUMENT_TYPES, each with its spelling
DOCUMENT_TYPES ==
  { [key |-> "unclassified", chars |-> <<"u","n","c","l","a","s","s","i","f","i","e","d">>],
    [key |-> "pitch", chars |-> <<"p","i","t","c","h">>],
    [key |-> "shortPitch", chars |-> <<"s","h","o","r","t","P","i","t","c","h">>],
    [key |-> "beatSheet", chars |-> <<"b","e","a","t","S","h","e","e","t">>],
    [key |-> "outline", chars |-> <<"o","u","t","l","i","n","e">>],
    [key |-> "pilot", chars |-> <<"p","i","l","o","t">>],
    [key |-> "draft", chars |-> <<"d","r","a","f","t">>],
    [key |-> "trimmedDraft", chars |-> <<"t","r","i","m","m","e","d","D","r","a","f","t">>],
    [key |-> "seriesDoc", chars |-> <<"s","e","r","i","e","s","D","o","c">>],
    [key |-> "characterBreakdown", chars |-> <<"c","h","a","r","a","c","t","e","r","B","r","e","a","k","d","o","w","n">>],
    [key |-> "worldBuilding", chars |-> <<"w","o","r","l","d","B","u","i","l","d","i","n","g">>],
    [key |-> "extraMaterials", chars |-> <<"e","x","t","r","a","M","a","t","e","r","i","a","l","s">>],
    [key |-> "notes", chars |-> <<"n","o","t","e","s">>],
    [key |-> "sessionNotes", chars |-> <<"s","e","s","s","i","o","n","N","o","t","e","s">>],
    [key |-> "quickNote", chars |-> <<"q","u","i","c","k","N","o","t","e">>],
    [key |-> "goldilocks", chars |-> <<"g","o","l","d","i","l","o","c","k","s">>],
    [key |-> "toAggregate", chars |-> <<"t","o","A","g","g","r","e","g","a","t","e">>],
    [key |-> "forToday", chars |-> <<"f","o","r","T","o","d","a","y">>],
    [key |-> "legal", chars |-> <<"l","e","g","a","l">>] }

GPT4o == "openai/gpt-4o"
Claude == "anthropic/claude-3.5-sonnet"

PromptSlots == {"notes", "beatSheet", "sessionNotes", "default"}

\* DEFAULT_AI_PROMPTS: one prompt configuration per slot
DEFAULT_AI_PROMPTS ==
  {[slot |-> sl, model |-> GPT4o, prompt |-> "built-in"] : sl \in PromptSlots}

\* aiPrompts.slot || DEFAULT_AI_PROMPTS.slot
PromptConfig(aiPrompts, sl) ==
  IF \E c \in aiPrompts : c.slot = sl
    THEN CHOOSE c \in aiPrompts : c.slot = sl
    ELSE CHOOSE c \in DEFAULT_AI_PROMPTS : c.slot = sl

\* the prompt slot of a detected type
SlotOf(detectedType) ==
  IF detectedType = "notes" THEN "notes"
  ELSE IF detectedType = "beatSheet" THEN "beatSheet"
  ELSE IF detectedType = "sessionNotes" \/ detectedType = "quickNote"
    THEN "sessionNotes"
  ELSE "default"

\* the models a caller or a prompt configuration names, and
\* model.includes(word) for the two words the code looks for
Models == {GPT4o, Claude}

ModelIncludes(model, word) ==
  model = Claude /\ word \in {"claude", "anthropic"}

\* an error: its message, the lower-case phrases among `content policy`,
\* `moderation`, `harmful`, `blocked`, `claude` and `anthropic` that the
\* message contains, and its status property, 0 when it has none
ModerationPhrases == {"content policy", "moderation", "harmful", "blocked"}

ClassificationBlocked ==
  [message |-> "Claude moderation blocked document classification. Switch to GPT-4o in Settings for fictional/dramatic content.",
   has |-> {"moderation", "blocked"}, status |-> 0]

ClaudeGuidance ==
  [message |-> "Claude content moderation blocked this request. This often happens with creative/dramatic content. Please switch to GPT-4o in Settings, which has more relaxed moderation for fictional content.",
   has |-> {"moderation", "blocked"}, status |-> 0]

GenericModeration ==
  [message |-> "Content moderation blocked this request. Your creative content may have triggered safety filters. Try using GPT-4o which is better for fictional TV/film content.",
   has |-> {"moderation", "blocked"}, status |-> 0]

NoError == [message |-> "", has |-> {}, status |-> 0]

\* error.message && (error.message.includes(...) || error.status === 400)
IsModeration(error) ==
  /\ error.message # ""
  /\ error.has \cap ModerationPhrases # {} \/ error.status = 400

\* classifyDocumentWithAI(text, filename, model): the reply trimmed and
\* lower-cased, looked up in DOCUMENT_TYPES, `pitch` when it is no key; on a
\* gateway error `pitch`, unless the error is a moderation error and the
\* model is of the Claude family, when it throws
classifyDocumentWithAI(reply, model) ==
  LET detectedType == ToLowerCase(Trim(reply.content))
  IN IF ~reply.ok
       THEN IF IsModeration(reply.error)
                 /\ (ModelIncludes(model, "claude")
                       \/ ModelIncludes(model, "anthropic"))
              THEN [type |-> "pitch", thrown |-> Some(ClassificationBlocked)]
              ELSE [type |-> "pitch", thrown |-> None]
     ELSE IF \E t \in DOCUMENT_TYPES : t.chars = detectedType
       THEN [type |-> (CHOOSE t \in DOCUMENT_TYPES : t.chars = detectedType).key,
             thrown |-> None]
       ELSE [type |-> "pitch", thrown |-> None]

\* the catch block of analyzeContentWithAI: the error it throws for the
\* error it caught
Raise(error) ==
  IF IsModeration(error)
    THEN IF "claude" \in error.has \/ "anthropic" \in error.has
           THEN ClaudeGuidance ELSE GenericModeration
    ELSE error

\* the project settings analyzeContentWithAI loads for `projectId`
LoadPrompts(tree, projectId) ==
  IF projectId \in DOMAIN tree /\ IsSome(tree[projectId].settings)
    THEN Get(tree[projectId].settings).aiPrompts
    ELSE DEFAULT_AI_PROMPTS

\* a configuration's model taken from the caller
RequestedModel(promptConfig, model) == model

\* const selectedModel = promptConfig.model
SelectedModel(promptConfig, model) == promptConfig.model

\* analyzeContentWithAI(text, filename, documentType, model, projectId):
\* the completion request it sends, absent when the classification threw,
\* and the analysis it returns or the error it throws; `typeReply` and
\* `reply` are the gateway's answers
analyzeContentWithAI(tree, filename, documentType, model, typeReply, reply, projectId) ==
  LET typeClassification == classifyDocumentWithAI(typeReply, model)
      classified == documentType = "unclassified"
      detectedType == IF classified THEN typeClassification.type
                      ELSE documentType
      aiPrompts == LoadPrompts(tree, projectId)
      promptConfig == PromptConfig(aiPrompts, SlotOf(detectedType))
      selectedModel == SelectedModel(promptConfig, model)
      blocked == classified /\ IsSome(typeClassification.thrown)
  IN [ sent |-> IF blocked THEN None
                ELSE Some([model |-> selectedModel,
                           prompt |-> promptConfig.prompt,
                           filename |-> filename]),
       ok |-> ~blocked /\ reply.ok,
       thrown |-> IF blocked THEN Some(Raise(Get(typeClassification.thrown)))
                  ELSE IF ~reply.ok THEN Some(Raise(reply.error))
                  ELSE None,
       characters |-> reply.characters,
       themes |-> reply.themes,
       model |-> selectedModel,
       detectedType |-> detectedType ]

\* the default value of the projectId parameter of analyzeContentWithAI
DefaultProjectIdParameter(projectId) == DefaultId

\* a handler that marks the document as analysed on disk before it asks the
\* gateway, and answers 500
AnalyzeEagerly(tree, configured, req, id, model, typeReply, reply) ==
  LET projectId == getProjectId(req)
      docs == GetDocuments(tree, req)
      index == FindIndex(docs, id)
  IN IF ~configured THEN Response(tree, 400, projectId)
     ELSE IF index = 0 THEN Response(tree, 404, projectId)
     ELSE Response(WriteData(tree, projectId,
                             [docs EXCEPT ![index].aiEnhanced = TRUE]),
                   500, projectId)

\* POST /api/documents/:id/analyze
AnalyzeResult(tree, configured, req, id, model, typeReply, reply) ==
  LET projectId == getProjectId(req)
      docs == GetDocuments(tree, req)
      index == FindIndex(docs, id)
  IN IF ~configured THEN Response(tree, 400, projectId)
     ELSE IF ~(projectId \in DOMAIN tree /\ IsSome(tree[projectId].data))
       THEN Response(tree, 404, projectId)
     ELSE IF index = 0 THEN Response(tree, 404, projectId)
     ELSE LET document == docs[index]
              text == extractTextFromFile(tree[projectId].uploads,
                                          document.filePath, document.filename)
              aiAnalysis ==
                analyzeContentWithAI(tree, document.filename, document.type,
                                     IF IsSome(model) THEN Get(model)
                                     ELSE GPT4o,
                                     typeReply, reply,
                                     DefaultProjectIdParameter(projectId))
              analysed == [document EXCEPT
                             !.characters = aiAnalysis.characters,
                             !.themes = aiAnalysis.themes,
                             !.aiEnhanced = TRUE,
                             !.aiModel = Some(aiAnalysis.model),
                             !.type = aiAnalysis.detectedType]
          IN IF ~IsSome(text) THEN Response(tree, 500, projectId)
             ELSE IF ~aiAnalysis.ok
               THEN [Response(tree, 500, projectId)
                       EXCEPT !.sent = aiAnalysis.sent]
             ELSE [Response(WriteData(tree, projectId,
                                      [docs EXCEPT ![index] = analysed]),
                            200, projectId)
                     EXCEPT !.sent = aiAnalysis.sent]

\* POST /api/documents/:id/analyze up to its call of analyzeContentWithAI:
\* the documents are read into the request's copy and the text is extracted
AnalyzeRead(tree, configured, req, id) ==
  LET projectId == getProjectId(req)
      docs == GetDocuments(tree, req)
      index == FindIndex(docs, id)
      status ==
        IF ~configured THEN 400
        ELSE IF ~(projectId \in DOMAIN tree /\ IsSome(tree[projectId].data))
          THEN 404
        ELSE IF index = 0 THEN 404
        ELSE IF ~IsSome(extractTextFromFile(tree[projectId].uploads,
                                            docs[index].filePath,
                                            docs[index].filename))
          THEN 500
        ELSE 0
  IN [status |-> status, projectId |-> projectId, copy |-> docs]

\* POST /api/documents/:id/analyze from the answer of analyzeContentWithAI
\* to fs.writeJSON: the request's copy with the analysed document replaces
\* the file
AnalyzeWrite(tree, projectId, copy, id, aiAnalysis) ==
  LET index == FindIndex(copy, id)
      analysed == [copy[index] EXCEPT
                     !.characters = aiAnalysis.characters,
                     !.themes = aiAnalysis.themes,
                     !.aiEnhanced = TRUE,
                     !.aiModel = Some(aiAnalysis.model),
                     !.type = aiAnalysis.detectedType]
  IN WriteData(tree, projectId, [copy EXCEPT ![index] = analysed])

\* POST /api/documents/:id/update-grid; `reply` is the gateway's answer
UpdateGridEdit(document, uploads, reply, clock) ==
  LET text == extractTextFromFile(uploads, document.filePath,
                                  document.filename)
      characters == IF IsSome(document.characters)
                      THEN Get(document.characters) ELSE <<>>
  IN IF ~IsSome(text)
       THEN [status |-> 500, document |-> document, called |-> FALSE]
     ELSE IF Len(characters) = 0
       THEN [status |-> 400, document |-> document, called |-> FALSE]
     ELSE IF ~reply.ok
       THEN [status |-> 500, document |-> document, called |-> TRUE]
     ELSE [status |-> 200,
           called |-> TRUE,
           document |-> [document EXCEPT
                           !.episodes = reply.episodes,
                           !.characterActions = reply.characterActions,
                           !.themeAppearances =
                             IF IsSome(reply.themeAppearances)
                               THEN reply.themeAppearances ELSE Some("{}"),
                           !.inStoryGrid = TRUE,
                           !.gridUpdatedAt = Some(clock)]]

\* `sent` is the completion request for the story grid, absent when the
\* gateway is not called
UpdateGridResult(tree, configured, req, id, reply, clock) ==
  LET projectId == getProjectId(req)
      docs == GetDocuments(tree, req)
      index == FindIndex(docs, id)
      outcomes == [k \in 1..Len(docs) |->
                     UpdateGridEdit(docs[k], tree[projectId].uploads, reply,
                                    clock)]
  IN IF ~configured THEN Response(tree, 400, projectId)
     ELSE [EditDocument(tree, req, id, outcomes) EXCEPT
             !.sent = IF index # 0 /\ outcomes[index].called
                        THEN Some([characters |-> docs[index].characters,
                                   filename |-> docs[index].filename])
                        ELSE None]

\* a save that takes every field from the request, supplied or not
Overwrite(old, supplied) == supplied

\* POST /api/story-grid/:id: the supplied fields are merged
Merge(old, supplied) == IF IsSome(supplied) THEN supplied ELSE old

SaveStoryGridEdit(document, body, clock) ==
  [status |-> 200,
   document |-> [document EXCEPT
                   !.episodes = Merge(@, body.episodes),
                   !.characterActions = Merge(@, body.characterActions),
                   !.sectionActions = Merge(@, body.sectionActions),
                   !.themeAppearances = Merge(@, body.themeAppearances),
                   !.characterOrder = Merge(@, body.characterOrder),
                   !.gridUpdatedAt = Some(clock)]]

SaveStoryGridResult(tree, req, id, body, clock) ==
  EditDocument(tree, req, id,
    [k \in 1..Len(GetDocuments(tree, req)) |->
       SaveStoryGridEdit(GetDocuments(tree, req)[k], body, clock)])

(***************************************************************************)
(* Document comparison.                                                    *)
(***************************************************************************)
\* list.filter(x => !other.includes(x)) and list.filter(x => other.includes(x))
NotIn(list, other) == SelectSeq(list, LAMBDA x : ~Includes(other, x))
AlsoIn(list, other) == SelectSeq(list, LAMBDA x : Includes(other, x))

\* a percentage that drops the fraction instead of rounding
FloorPercent(a, b) == (100 * a) \div b

\* Math.round(a / b * 100) for a >= 0 and b > 0
RoundPercent(a, b) == (200 * a + b) \div (2 * b)

\* the thematicShift object
thematicShift(themes1, themes2) ==
  LET newThemes == NotIn(themes2, themes1)
      removedThemes == NotIn(themes1, themes2)
      unchangedThemes == AlsoIn(themes1, themes2)
  IN [ added |-> Len(newThemes),
       removed |-> Len(removedThemes),
       unchanged |-> Len(unchangedThemes),
       totalChange |-> Len(newThemes) + Len(removedThemes),
       netChange |-> Len(themes2) - Len(themes1),
       shiftPercentage |->
         IF Len(themes1) > 0
           THEN RoundPercent(Len(newThemes) + Len(removedThemes), Len(themes1))
           ELSE 0 ]

\* a comparison that takes the documents in the order of the request
NeverSwap(doc1, doc2) == FALSE

\* new Date(doc1.date) > new Date(doc2.date): the documents are swapped
Swap(doc1, doc2) == doc1.date > doc2.date

\* the fields of a document the comparison returns
Summary(doc) ==
  [id |-> doc.id, filename |-> doc.filename, date |-> doc.date,
   wordCount |-> doc.wordCount, characters |-> doc.characters,
   themes |-> doc.themes]

NoComparison(status) ==
  [status |-> status, doc1 |-> None, doc2 |-> None, stats |-> None,
   brief |-> None]

\* the body of GET /api/compare once both documents are found; Diff.diffWords
\* is a function of the two texts in their order
Comparison(uploads, first, second, brief) ==
  LET doc1 == IF Swap(first, second) THEN second ELSE first
      doc2 == IF Swap(first, second) THEN first ELSE second
      text1 == extractTextFromFile(uploads, doc1.filePath, doc1.filename)
      text2 == extractTextFromFile(uploads, doc2.filePath, doc2.filename)
  IN IF ~IsSome(text1) \/ ~IsSome(text2) THEN NoComparison(500)
     ELSE IF ~IsSome(doc1.characters) \/ ~IsSome(doc2.characters)
       THEN NoComparison(500)
     ELSE IF ~IsSome(doc1.themes) \/ ~IsSome(doc2.themes)
       THEN NoComparison(500)
     ELSE [ status |-> 200,
            doc1 |-> Some(Summary(doc1)),
            doc2 |-> Some(Summary(doc2)),
            stats |-> Some(
              [ textDiff |-> <<Get(text1), Get(text2)>>,
                wordCountChange |-> doc2.wordCount - doc1.wordCount,
                newCharacters |-> NotIn(Get(doc2.characters), Get(doc1.characters)),
                removedCharacters |-> NotIn(Get(doc1.characters), Get(doc2.characters)),
                newThemes |-> NotIn(Get(doc2.themes), Get(doc1.themes)),
                removedThemes |-> NotIn(Get(doc1.themes), Get(doc2.themes)),
                unchangedThemes |-> AlsoIn(Get(doc1.themes), Get(doc2.themes)),
                thematicShift |-> thematicShift(Get(doc1.themes), Get(doc2.themes)) ]),
            brief |-> brief ]

\* GET /api/compare/:id1/:id2; `briefReply` is what the gateway returns for
\* the brief
CompareResult(tree, configured, req, id1, id2, briefReply) ==
  LET projectId == getProjectId(req)
      docs == GetDocuments(tree, req)
      i1 == FindIndex(docs, id1)
      i2 == FindIndex(docs, id2)
  IN IF ~(projectId \in DOMAIN tree /\ IsSome(tree[projectId].data))
       THEN NoComparison(404)
     ELSE IF i1 = 0 \/ i2 = 0 THEN NoComparison(404)
     ELSE Comparison(tree[projectId].uploads, docs[i1], docs[i2],
                     IF configured THEN briefReply ELSE None)

(***************************************************************************)
(* Project handlers.                                                       *)
(***************************************************************************)
\* a check that finds no project directory
NeverExists(tree, projectId) == FALSE

\* fs.pathExists(path.join(PROJECTS_DIR, projectId)): the empty id names
\* PROJECTS_DIR itself
ProjectPathExists(tree, projectId) ==
  projectId = EmptyString \/ projectId \in DOMAIN tree

\* POST /api/projects
CreateProjectResult(tree, name, clock) ==
  LET projectId == ProjectIdFromName(Get(name))
      metadata == [id |-> projectId, name |-> Trim(Get(name)),
                   createdAt |-> clock]
      created == [uploads |-> IF projectId \in DOMAIN tree
                                THEN tree[projectId].uploads ELSE {},
                  data |-> Some([documents |-> <<>>]),
                  meta |-> Some(metadata),
                  settings |-> None]
  IN IF ~IsSome(name) \/ Trim(Get(name)) = <<>>
       THEN Response(tree, 400, EmptyString)
     ELSE IF ProjectPathExists(tree, projectId)
       THEN Response(tree, 400, projectId)
     ELSE Response((projectId :> created) @@ tree, 200, projectId)

\* POST /api/projects up to its fs.pathExists: the metadata the request will
\* write, and the status it answers with at once (0 when it goes on)
CreateProjectRead(tree, name, clock) ==
  LET projectId == IF IsSome(name) THEN ProjectIdFromName(Get(name))
                   ELSE EmptyString
  IN [status |-> IF ~IsSome(name) \/ Trim(Get(name)) = <<>> THEN 400
                 ELSE IF ProjectPathExists(tree, projectId) THEN 400
                 ELSE 0,
      projectId |-> projectId,
      metadata |-> [id |-> projectId,
                    name |-> IF IsSome(name) THEN Trim(Get(name)) ELSE <<>>,
                    createdAt |-> clock]]

\* POST /api/projects from fs.ensureDir to the second fs.writeJSON: the
\* directories are kept as they are, the two files are written
CreateProjectWrite(tree, projectId, metadata) ==
  LET dir == ensureDir(tree, projectId)
  IN [dir EXCEPT ![projectId].meta = Some(metadata),
                 ![projectId].data = Some([documents |-> <<>>])]

\* DELETE /api/projects/:id
DeleteProjectResult(tree, id) ==
  IF ~ProjectPathExists(tree, id) THEN Response(tree, 404, id)
  ELSE Response(RemoveDir(tree, id), 200, id)

\* GET /api/projects: the ids of the listed projects
ListProjects(tree) == DOMAIN tree

CustomPrompts == {[slot |-> "default", model |-> Claude, prompt |-> "custom"]}

\* POST /api/projects/:id/settings
SaveSettingsResult(tree, id, aiPrompts) ==
  IF id \notin DOMAIN tree THEN Response(tree, 404, id)
  ELSE Response([tree EXCEPT ![id].settings =
                   Some([aiPrompts |-> IF IsSome(aiPrompts)
                                         THEN Get(aiPrompts) ELSE {}])],
                200, id)

(***************************************************************************)
(* The legacy layout and the startup migration.                            *)
(***************************************************************************)
\* the characters of two words compared as strings: a < b
LetterIndex(c) == CHOOSE i \in 1..26 : UpperCase[i] = c

RECURSIVE Before(_, _)
Before(a, b) ==
  IF b = <<>> THEN FALSE
  ELSE IF a = <<>> THEN TRUE
  ELSE IF Head(a) = Head(b) THEN Before(Tail(a), Tail(b))
  ELSE LetterIndex(Head(a)) < LetterIndex(Head(b))

\* Array.from(characters).sort()
RECURSIVE SortWords(_)
SortWords(words) ==
  IF words = {} THEN <<>>
  ELSE LET first == CHOOSE w \in words : \A v \in words \ {w} : Before(w, v)
       IN <<first>> \o SortWords(words \ {first})

\* the stop words that occur in the modelled texts
stopWords == {The}

\* extractCharacters: the words in capitals of 3 to 15 letters that are no
\* stop words, sorted
extractCharacters(text) ==
  SortWords({w \in text.capitals :
               Len(w) >= 3 /\ Len(w) <= 15 /\ w \notin stopWords})

\* classifyDocumentType of the single-project server: the filename first,
\* then the indicator phrases of the text
classifyDocumentType(filename, text) ==
  IF filename.stem \in {"notes", "feedback", "comments"} THEN "notes"
  ELSE IF filename.stem \in {"pitch", "treatment"} THEN "pitch"
  ELSE IF filename.stem = "outline" THEN "outline"
  ELSE IF filename.stem \in {"draft", "revision"} THEN "draft"
  ELSE text.looksLike

\* the document object built by the single-project server's upload: its
\* type and characters come from the heuristics
LegacyDocument(file, storedName, clock) ==
  [NewDocument(file, storedName, clock) EXCEPT
     !.type = classifyDocumentType(file.originalname, file.body),
     !.characters = Some(extractCharacters(file.body))]

NoLegacy == [data |-> None, uploads |-> {}]

\* POST /api/upload of the single-project server, on projects/project-data.json
\* and the shared uploads directory
LegacyUploadResult(old, clock, later, upload) ==
  IF ~IsSome(upload) THEN [legacy |-> old, status |-> 400]
  ELSE IF ~fileFilter(Get(upload)) THEN [legacy |-> old, status |-> 500]
  ELSE LET file == Get(upload)
           storedName == [ts |-> clock, originalname |-> file.originalname]
           uploads == {f \in old.uploads : f.name # storedName}
                        \cup {[name |-> storedName, body |-> file.body]}
           text == extractTextFromFile(uploads, storedName, file.originalname)
           document == LegacyDocument(file, storedName, later)
           documents ==
             SortByDate(Append(IF IsSome(old.data)
                                 THEN Get(old.data).documents ELSE <<>>,
                               document))
       IN IF ~IsSome(text)
            THEN [legacy |-> [old EXCEPT !.uploads = uploads], status |-> 500]
            ELSE [legacy |-> [data |-> Some([documents |-> documents]),
                              uploads |-> uploads],
                  status |-> 200]

LegacyFile ==
  [originalname |-> [stem |-> "old", stamp |-> Some(2), ext |-> ".docx"],
   mimetype |->
     "application/vnd.openxmlformats-officedocument.wordprocessingml.document",
   body |-> Love]

\* the layout the single-project server leaves after one upload
LegacyLayout == LegacyUploadResult(NoLegacy, 0, 0, Some(LegacyFile)).legacy

\* fs.move of every legacy upload, { overwrite: false }: stops at the first
\* file whose name is taken
RECURSIVE MoveUploads(_, _)
MoveUploads(from, to) ==
  IF from = {} THEN [from |-> from, to |-> to, ok |-> TRUE]
  ELSE LET f == CHOOSE g \in from : TRUE
       IN IF \E h \in to : h.name = f.name
            THEN [from |-> from, to |-> to, ok |-> FALSE]
            ELSE MoveUploads(from \ {f}, to \cup {f})

\* a move of the data file that replaces the file of `default`
OverwriteData(tree, old) ==
  LET dirs == ensureDir(tree, DefaultId)
  IN IF ~IsSome(old.data)
       THEN [tree |-> tree, legacy |-> old, next |-> "idle", log |-> 0]
       ELSE [tree |-> [dirs EXCEPT ![DefaultId].data = old.data],
             legacy |-> [old EXCEPT !.data = None],
             next |-> "uploads", log |-> 0]

\* migrateLegacyProject through the fs.move of project-data.json,
\* { overwrite: false }: nothing to do without the legacy file, an error
\* logged when `default` has the file; `log` is 500 for the error logged
MoveData(tree, old) ==
  LET dirs == ensureDir(tree, DefaultId)
  IN IF ~IsSome(old.data)
       THEN [tree |-> tree, legacy |-> old, next |-> "idle", log |-> 0]
     ELSE IF IsSome(dirs[DefaultId].data)
       THEN [tree |-> dirs, legacy |-> old, next |-> "idle", log |-> 500]
     ELSE [tree |-> [dirs EXCEPT ![DefaultId].data = old.data],
           legacy |-> [old EXCEPT !.data = None],
           next |-> "uploads", log |-> 0]

\* migrateLegacyProject from the uploads to project.json; `log` is 200 for
\* the completion logged and 500 for the error logged
MoveRest(tree, old, clock) ==
  LET dirs == ensureDir(tree, DefaultId)
      moved == MoveUploads(old.uploads, dirs[DefaultId].uploads)
      movedUploads == [dirs EXCEPT ![DefaultId].uploads = moved.to]
      metadata == [id |-> DefaultId, name |-> <<"D","e","f","a","u","l","t">>,
                   createdAt |-> clock]
  IN IF ~moved.ok
       THEN [tree |-> movedUploads,
             legacy |-> [old EXCEPT !.uploads = moved.from], log |-> 500]
       ELSE [tree |-> [movedUploads EXCEPT ![DefaultId].meta = Some(metadata)],
             legacy |-> [old EXCEPT !.uploads = moved.from], log |-> 200]

\* migrateLegacyProject, run without a request in between
migrateLegacyProject(tree, old, clock) ==
  LET data == MoveData(tree, old)
      rest == MoveRest(data.tree, data.legacy, clock)
  IN IF data.next = "idle" THEN [tree |-> data.tree, legacy |-> data.legacy]
     ELSE [tree |-> rest.tree, legacy |-> rest.legacy]

(***************************************************************************)
(* The story grid.                                                         *)
(***************************************************************************)
\* d.characters || [], d.themes || []
OrEmpty(list) == IF IsSome(list) THEN Get(list) ELSE <<>>

\* the themes of the model in the order Array.prototype.sort leaves strings
ThemesInOrder ==
  << "a", "ambition", "b", "betrayal", "c", "community", "control",
     "corruption", "d", "deception", "family", "femininity", "freedom",
     "greed", "identity", "justice", "love", "loyalty", "masculinity",
     "power", "redemption", "revenge", "sacrifice", "survival", "truth" >>

\* [...new Set(documents.flatMap(d => d.themes || []))].sort()
SortThemes(themes) == SelectSeq(ThemesInOrder, LAMBDA t : t \in themes)

\* the names of all the lists of a sequence of lists
FlatMap(lists) == UNION {Range(lists[k]) : k \in 1..Len(lists)}

\* appearances.find(a => a.present)?.docDate || null
FirstPresent(appearances) ==
  IF \E k \in 1..Len(appearances) : appearances[k].present
    THEN Some(appearances[CHOOSE k \in 1..Len(appearances) :
                            /\ appearances[k].present
                            /\ \A j \in 1..(k - 1) : ~appearances[j].present]
                .docDate)
    ELSE None

\* [...appearances].reverse().find(a => a.present)?.docDate || null
LastPresent(appearances) ==
  IF \E k \in 1..Len(appearances) : appearances[k].present
    THEN Some(appearances[CHOOSE k \in 1..Len(appearances) :
                            /\ appearances[k].present
                            /\ \A j \in (k + 1)..Len(appearances) :
                                 ~appearances[j].present]
                .docDate)
    ELSE None

\* a count that takes every appearance record for an appearance
CountAll(appearances) == Len(appearances)

\* appearances.filter(a => a.present).length
CountPresent(appearances) ==
  Cardinality({k \in 1..Len(appearances) : appearances[k].present})

\* one row of characterGrid or themeGrid; lists[k] is the list of the k-th
\* document
GridRow(name, sortedDocs, lists) ==
  LET appearances ==
        [k \in 1..Len(sortedDocs) |->
           [docId |-> sortedDocs[k].id,
            docName |-> sortedDocs[k].filename,
            docDate |-> sortedDocs[k].date,
            present |-> Includes(lists[k], name)]]
  IN [name |-> name,
      appearances |-> appearances,
      totalAppearances |-> CountPresent(appearances),
      firstAppearance |-> FirstPresent(appearances),
      lastAppearance |-> LastPresent(appearances)]

\* GET /api/story-grid: the sorted documents and the two matrices
StoryGridResult(tree, req) ==
  LET documents == GetDocuments(tree, req)
      sortedDocs == SortByDate(documents)
      characters == [k \in 1..Len(sortedDocs) |-> OrEmpty(sortedDocs[k].characters)]
      themes == [k \in 1..Len(sortedDocs) |-> OrEmpty(sortedDocs[k].themes)]
      allCharacters == SortWords(FlatMap(characters))
      allThemes == SortThemes(FlatMap(themes))
  IN [status |-> 200,
      documents |-> sortedDocs,
      characterGrid |->
        [r \in 1..Len(allCharacters) |->
           GridRow(allCharacters[r], sortedDocs, characters)],
      themeGrid |->
        [r \in 1..Len(allThemes) |-> GridRow(allThemes[r], sortedDocs, themes)],
      totalDocuments |-> Len(documents)]

\* GET /api/timeline: flatMap keeps a document's absent characters or themes
\* as one undefined element, so the statistics are built whatever the
\* documents hold
TimelineResult(tree, req) ==
  LET documents == GetDocuments(tree, req)
      characters == [k \in 1..Len(documents) |-> documents[k].characters]
      themes == [k \in 1..Len(documents) |-> documents[k].themes]
  IN [status |-> 200,
      totalDocuments |-> Len(documents),
      allCharacters |->
        UNION {IF IsSome(characters[k]) THEN Range(Get(characters[k]))
               ELSE {"undefined"} : k \in 1..Len(documents)},
      allThemes |->
        UNION {IF IsSome(themes[k]) THEN Range(Get(themes[k]))
               ELSE {"undefined"} : k \in 1..Len(documents)}]

\* GET /api/documents/:id
GetDocumentResult(tree, req, id) ==
  LET projectId == getProjectId(req)
      docs == GetDocuments(tree, req)
      index == FindIndex(docs, id)
  IN IF ~(projectId \in DOMAIN tree /\ IsSome(tree[projectId].data))
       THEN [status |-> 404, document |-> None]
     ELSE IF index = 0 THEN [status |-> 404, document |-> None]
     ELSE [status |-> 200, document |-> Some(docs[index])]

(***************************************************************************)
(* Rule-based classification of document-types.js.  A text is an excerpt   *)
(* of characters followed by `padding` further words that hold no keyword. *)
(***************************************************************************)
\* the types of DOCUMENT_TYPES in CLASSIFICATION_ORDER, each with its
\* filenameKeywords, its contentKeywords and typicalWordCount.min; a
\* character outside ASCII is written as its code point
CLASSIFICATION_ORDER ==
  <<
    [key |-> "legal", min |-> 1000,
     filenameKeywords |->
       { <<"a","g","r","e","e","m","e","n","t">>,
         <<"c","o","n","t","r","a","c","t">>,
         <<"s","h","o","p","p","i","n","g">>,
         <<"a","t","t","a","c","h","m","e","n","t">>,
         <<"o","p","t","i","o","n">>, <<"d","o","c","u","s","i","g","n">> },
     contentKeywords |->
       { <<"a","g","r","e","e","m","e","n","t">>,
         <<"c","o","n","t","r","a","c","t">>, <<"p","a","r","t","y">>,
         <<"t","e","r","m","s">>, <<"w","h","e","r","e","a","s">> }],
    [key |-> "notes", min |-> 100,
     filenameKeywords |->
       { <<"n","o","t","e","s">>, <<"f","e","e","d","b","a","c","k">>,
         <<"c","o","m","m","e","n","t","s">>,
         <<"r","e","s","p","o","n","s","e">>, <<"f","r","o","m">> },
     contentKeywords |->
       { <<"f","e","e","d","b","a","c","k">>, <<"n","o","t","e","s">>,
         <<"c","o","n","c","e","r","n">>, <<"q","u","e","s","t","i","o","n">>,
         <<"s","u","g","g","e","s","t","i","o","n">>, <<"l","o","v","e">>,
         <<"c","o","n","f","u","s","e","d">> }],
    [key |-> "extraMaterials", min |-> 500,
     filenameKeywords |->
       { <<"e","x","t","r","a">>, <<"m","a","t","e","r","i","a","l","s">>,
         <<"s","u","p","p","l","e","m","e","n","t","a","l">>, <<"U+9644","U+52A0">>,
         <<"a","d","d","i","t","i","o","n","a","l">> },
     contentKeywords |->
       {}],
    [key |-> "toAggregate", min |-> 1000,
     filenameKeywords |->
       { <<"t","o"," ","a","g","g","r","e","g","a","t","e">>,
         <<"t","o","a","g","g","r","e","g","a","t","e">>,
         <<"f","o","r"," ","a","g","g","r","e","g","a","t","e">> },
     contentKeywords |->
       {}],
    [key |-> "forToday", min |-> 500,
     filenameKeywords |->
       { <<"f","o","r"," ","t","o","d","a","y">>,
         <<"f","o","r"," ","t","o","m","o","r","r","o","w">>,
         <<"f","o","r"," ","m","e","e","t","i","n","g">> },
     contentKeywords |->
       {}],
    [key |-> "goldilocks", min |-> 1000,
     filenameKeywords |->
       { <<"g","o","l","d","i","l","o","c","k","s">>,
         <<"j","u","s","t"," ","r","i","g","h","t">> },
     contentKeywords |->
       {}],
    [key |-> "shortPitch", min |-> 300,
     filenameKeywords |->
       { <<"s","h","o","r","t"," ","p","i","t","c","h">>,
         <<"o","n","e"," ","s","h","e","e","t">>,
         <<"l","e","a","v","e"," ","b","e","h","i","n","d">> },
     contentKeywords |->
       { <<"l","o","g","l","i","n","e">>, <<"i","n"," ","b","r","i","e","f">> }],
    [key |-> "beatSheet", min |-> 1000,
     filenameKeywords |->
       { <<"b","e","a","t"," ","s","h","e","e","t">>, <<"b","e","a","t","s">> },
     contentKeywords |->
       { <<"a","c","t">>, <<"s","c","e","n","e">>, <<"b","e","a","t">>,
         <<"t","e","a","s","e","r">>, <<"c","o","l","d"," ","o","p","e","n">>,
         <<"t","a","g">> }],
    [key |-> "outline", min |-> 2000,
     filenameKeywords |->
       { <<"o","u","t","l","i","n","e">> },
     contentKeywords |->
       { <<"a","c","t"," ","o","n","e">>, <<"a","c","t"," ","t","w","o">>,
         <<"a","c","t"," ","t","h","r","e","e">>,
         <<"o","p","e","n","s"," ","w","i","t","h">>,
         <<"w","e"," ","s","e","e">> }],
    [key |-> "seriesDoc", min |-> 3000,
     filenameKeywords |->
       { <<"s","e","r","i","e","s">>, <<"s","e","a","s","o","n">>,
         <<"e","p","i","s","o","d","e","s">>,
         <<"m","u","l","t","i","-","e","p","i","s","o","d","e">> },
     contentKeywords |->
       { <<"e","p","i","s","o","d","e">>, <<"s","e","a","s","o","n">>,
         <<"a","r","c">>, <<"s","t","o","r","y"," ","e","n","g","i","n","e">> }],
    [key |-> "characterBreakdown", min |-> 1000,
     filenameKeywords |->
       { <<"c","h","a","r","a","c","t","e","r">>, <<"c","a","s","t">>,
         <<"b","r","e","a","k","d","o","w","n">>, <<"b","i","o","s">> },
     contentKeywords |->
       { <<"p","r","o","t","a","g","o","n","i","s","t">>,
         <<"a","n","t","a","g","o","n","i","s","t">>,
         <<"b","a","c","k","s","t","o","r","y">>,
         <<"m","o","t","i","v","a","t","i","o","n">> }],
    [key |-> "worldBuilding", min |-> 1000,
     filenameKeywords |->
       { <<"w","o","r","l","d">>, <<"s","e","t","t","i","n","g">>,
         <<"u","n","i","v","e","r","s","e">>,
         <<"m","y","t","h","o","l","o","g","y">>, <<"b","i","b","l","e">> },
     contentKeywords |->
       { <<"s","e","t","t","i","n","g">>, <<"w","o","r","l","d">>,
         <<"u","n","i","v","e","r","s","e">>, <<"r","u","l","e","s">> }],
    [key |-> "trimmedDraft", min |-> 6000,
     filenameKeywords |->
       { <<"t","r","i","m","m","e","d">>, <<"c","u","t">>,
         <<"s","h","o","r","t","e","n","e","d">> },
     contentKeywords |->
       { <<"i","n","t",".">>, <<"e","x","t",".">> }],
    [key |-> "pilot", min |-> 8000,
     filenameKeywords |->
       { <<"p","i","l","o","t">>, <<"e","p","i","s","o","d","e"," ","1">>,
         <<"e","p","1">>, <<"e","p"," ","1">> },
     contentKeywords |->
       { <<"i","n","t",".">>, <<"e","x","t",".">>,
         <<"f","a","d","e"," ","i","n">>, <<"f","a","d","e"," ","o","u","t">> }],
    [key |-> "draft", min |-> 8000,
     filenameKeywords |->
       { <<"d","r","a","f","t">>, <<"r","e","v","i","s","i","o","n">>,
         <<"v","e","r","s","i","o","n">>, <<"v","1">>, <<"v","2">>,
         <<"v","3">> },
     contentKeywords |->
       { <<"i","n","t",".">>, <<"e","x","t",".">>, <<"f","a","d","e">> }],
    [key |-> "pitch", min |-> 1500,
     filenameKeywords |->
       { <<"p","i","t","c","h">>, <<"t","r","e","a","t","m","e","n","t">> },
     contentKeywords |->
       { <<"l","o","g","l","i","n","e">>, <<"t","o","n","e">>,
         <<"c","o","m","p","a","r","a","b","l","e">>,
         <<"s","i","m","i","l","a","r"," ","t","o">>, <<"g","e","n","r","e">> }],
    [key |-> "sessionNotes", min |-> 50,
     filenameKeywords |->
       { <<"s","e","s","h">>, <<"s","e","s","s","i","o","n">>,
         <<"t","h","i","n","k","i","n","g">>,
         <<"t","h","o","u","g","h","t","s">>, <<"i","d","e","a","s">> },
     contentKeywords |->
       { <<"i","d","e","a">>, <<"w","h","a","t"," ","i","f">>,
         <<"m","a","y","b","e">>, <<"t","h","o","u","g","h","t">> }],
    [key |-> "quickNote", min |-> 10,
     filenameKeywords |->
       {},
     contentKeywords |->
       {}]
  >>

\* haystack.includes(needle)
Contains(haystack, needle) ==
  \E i \in 1..(Len(haystack) - Len(needle) + 1) :
    SubSeq(haystack, i, i + Len(needle) - 1) = needle

\* text.split(/\s+/).filter(w => w.length > 0).length
WordCount(text) ==
  Cardinality({i \in 1..Len(text.chars) :
                 /\ text.chars[i] \notin WhiteSpace
                 /\ i = 1 \/ text.chars[i - 1] \in WhiteSpace})
    + text.padding

\* the special case of quickNote: a small .rtf file whose name is little
\* more than a date
HasDateOnly(filename) ==
  /\ \E i \in 1..(Len(filename) - 5) :
       \A j \in i..(i + 5) : filename[j] \in Digits
  /\ Len(SelectSeq(filename,
                   LAMBDA c : c \notin Digits \cup WhiteSpace \cup {".", "_", "-"}))
       < 10

EndsWith(filename, suffix) ==
  /\ Len(filename) >= Len(suffix)
  /\ SubSeq(filename, Len(filename) - Len(suffix) + 1, Len(filename)) = suffix

\* one pass of the loop of classifyDocument returns the type
Returns(type, filename, text) ==
  \/ \E keyword \in type.filenameKeywords :
       Contains(ToLowerCase(filename), ToLowerCase(keyword))
  \/ /\ \E keyword \in type.contentKeywords :
          Contains(ToLowerCase(text.chars), ToLowerCase(keyword))
     /\ WordCount(text) >= type.min
  \/ /\ type.key = "quickNote"
     /\ WordCount(text) < 500
     /\ EndsWith(filename, <<".","r","t","f">>)
     /\ HasDateOnly(filename)

\* a classification that looks at the content keywords of every type first
ContentFirst(filename, text) ==
  LET byContent ==
        {i \in 1..Len(CLASSIFICATION_ORDER) :
           /\ \E keyword \in CLASSIFICATION_ORDER[i].contentKeywords :
                Contains(ToLowerCase(text.chars), ToLowerCase(keyword))
           /\ WordCount(text) >= CLASSIFICATION_ORDER[i].min}
  IN IF byContent # {}
       THEN CLASSIFICATION_ORDER[CHOOSE i \in byContent :
                                   \A j \in byContent : i >= j].key
     ELSE "quickNote"

\* classifyDocument(filename, text)
classifyDocument(filename, text) ==
  LET returning == {i \in 1..Len(CLASSIFICATION_ORDER) :
                      Returns(CLASSIFICATION_ORDER[i], filename, text)}
  IN IF returning # {}
       THEN CLASSIFICATION_ORDER[CHOOSE i \in returning :
                                   \A j \in returning : i <= j].key
     ELSE IF WordCount(text) < 500 THEN "quickNote"
     ELSE IF WordCount(text) < 2000 THEN "sessionNotes"
     ELSE "pitch"

(***************************************************************************)
(* The browser module, project-utils.js. A page is the record of what      *)
(* local storage holds under currentProjectId and of location.pathname.    *)
(***************************************************************************)
ManagementPage == "/projects.html"
StartPage == "/index.html"

\* localStorage.getItem('currentProjectId') || 'default'
getCurrentProjectId(page) ==
  IF Truthy(page.stored) THEN Get(page.stored) ELSE DefaultId

setCurrentProjectId(page, projectId) ==
  [page EXCEPT !.stored = Some(projectId)]

getHeaders(page) ==
  [ContentType |-> "application/json",
   XProjectId |-> getCurrentProjectId(page)]

\* the date GET /api/projects sorts a project by: the createdAt of its
\* metadata file (written together with updatedAt); a directory without
\* the file is listed by its birth time, which the model does not keep
DatedProjects(tree) == {p \in DOMAIN tree : IsSome(tree[p].meta)}

\* GET /api/projects: the lists of project ids the handler can answer
\* with, most recent first
ProjectLists(tree) ==
  LET n == Cardinality(DOMAIN tree)
  IN {list \in [1..n -> DOMAIN tree] :
        /\ \A i, j \in 1..n : i # j => list[i] # list[j]
        /\ \A i, j \in 1..n :
              (/\ i < j
               /\ list[i] \in DatedProjects(tree)
               /\ list[j] \in DatedProjects(tree))
              => Get(tree[list[i]].meta).createdAt
                   >= Get(tree[list[j]].meta).createdAt}

\* what the page's fetch of /api/projects can end in: a rejected fetch, the
\* handler's 500 body, or a list
ProjectsResponses(tree) ==
  {[thrown |-> TRUE, success |-> FALSE, projects |-> <<>>],
   [thrown |-> FALSE, success |-> FALSE, projects |-> <<>>]}
  \cup {[thrown |-> FALSE, success |-> TRUE, projects |-> list] :
          list \in ProjectLists(tree)}

\* a check that keeps the stored id whatever the list holds
StaleSelection(page, response) ==
  IF response.thrown \/ ~response.success THEN page
  ELSE IF Len(response.projects) = 0 /\ page.pathname # ManagementPage
    THEN [page EXCEPT !.pathname = ManagementPage]
  ELSE page

checkProjectSelection(page, response) ==
  IF response.thrown THEN page
  ELSE IF ~response.success THEN page
  ELSE IF Len(response.projects) = 0 /\ page.pathname # ManagementPage
    THEN [page EXCEPT !.pathname = ManagementPage]
  ELSE IF /\ getCurrentProjectId(page) \notin Range(response.projects)
          /\ Len(response.projects) > 0
    THEN setCurrentProjectId(page, response.projects[1])
  ELSE page

(***************************************************************************)
(* The state machine.                                                      *)
(***************************************************************************)
\* the answer the page has to its request for the project list: none yet
NoResponse == [thrown |-> FALSE, success |-> FALSE, projects |-> <<>>]

\* a browser that has stored no project id and has just loaded the start
\* page: the script has called checkProjectSelection, which awaits its fetch
Loaded ==
  [stored |-> None, pathname |-> "/index.html", pc |-> "fetching",
   response |-> NoResponse]

\* the requests that may be in flight together, and a request slot at rest
Writers == {1, 2}

Idle ==
  [pc |-> "idle", op |-> "none", projectId |-> EmptyString, copy |-> <<>>,
   document |-> None, id |-> 0, status |-> 0]

Started ==
  [op |-> "start", status |-> 0, projectId |-> EmptyString, id |-> 0, id2 |-> 0]

Init ==
  /\ projects = [q \in {} |-> EmptyDir]
  /\ legacy \in {NoLegacy, LegacyLayout}
  /\ now = 1
  /\ openai = TRUE
  /\ served = 0
  /\ last = Started
  /\ writers = [w \in Writers |-> Idle]
  /\ migration = "idle"
  /\ browser = Loaded
  /\ classification = None

\* a request is served: the handler's tree is on disk, its response is sent
Serve(op, id, result) ==
  /\ served < MaxRequests
  /\ served' = served + 1
  /\ projects' = result.tree
  /\ last' = [op |-> op, status |-> result.status,
              projectId |-> result.projectId, id |-> id, id2 |-> 0]
  /\ UNCHANGED <<legacy, openai, writers, migration, browser, classification>>

\* the clock reads of one request: the same millisecond or a later one
Later == {now, now + 1}

\* the ids a request may name: every id given out so far, and 0
DocIds == 0..now

\* the server starts: migrateLegacyProject runs
Migrate ==
  /\ migration = "idle"
  /\ LET m == migrateLegacyProject(projects, legacy, now)
     IN /\ projects' = m.tree
        /\ legacy' = m.legacy
  /\ UNCHANGED <<now, openai, served, last, writers, migration, browser, classification>>

\* an upload served by the single-project server, which listens on the
\* port of the multi-project server and so runs while that one is down
LegacyUpload ==
  \E upload \in {None} \cup {Some(f) : f \in UploadFiles}, later \in Later :
    LET r == LegacyUploadResult(legacy, now, later, upload)
    IN /\ migration = "idle"
       /\ served < MaxRequests
       /\ served' = served + 1
       /\ legacy' = r.legacy
       /\ now' = later
       /\ last' = [op |-> "legacyUpload", status |-> r.status,
                   projectId |-> EmptyString, id |-> later, id2 |-> 0]
       /\ UNCHANGED <<projects, openai, writers, migration, browser, classification>>

Upload ==
  \E req \in Requests, upload \in {None} \cup {Some(f) : f \in UploadFiles},
     later \in Later :
    /\ Serve("upload", later, UploadResult(projects, now, later, req, upload))
    /\ now' = later

DeleteDocument ==
  \E req \in Requests, id \in DocIds :
    /\ Serve("deleteDocument", id, DeleteDocumentResult(projects, req, id))
    /\ UNCHANGED now

\* the errors of the gateway: a rate limit, a moderation refusal, a refusal
\* that names the provider, a bad request, and a reply that is not JSON
GatewayErrors ==
  { [message |-> "429 Rate limit exceeded", has |-> {}, status |-> 429],
    [message |-> "403 Input flagged by moderation", has |-> {"moderation"},
     status |-> 403],
    [message |-> "403 Request blocked by anthropic",
     has |-> {"blocked", "anthropic"}, status |-> 403],
    [message |-> "400 Provider returned error", has |-> {}, status |-> 400],
    [message |-> "Unexpected token in JSON", has |-> {}, status |-> 0] }

Flagged == CHOOSE e \in GatewayErrors : e.has = {"moderation"}

AnalysisReplies ==
  { [ok |-> TRUE, characters |-> Some(<<Anna>>), themes |-> Some(<<"love">>),
     error |-> NoError],
    [ok |-> TRUE, characters |-> Some(<<Anna, Anna>>),
     themes |-> Some(<<"power">>), error |-> NoError],
    [ok |-> TRUE, characters |-> None, themes |-> None, error |-> NoError],
    [ok |-> FALSE, characters |-> None, themes |-> None, error |-> Flagged] }

TypeReplies ==
  { [ok |-> TRUE, content |-> <<" ","N","o","t","e","s">>, error |-> NoError],
    [ok |-> TRUE, content |-> <<"d","u","n","n","o">>, error |-> NoError],
    [ok |-> TRUE, content |-> <<"b","e","a","t","S","h","e","e","t">>,
     error |-> NoError],
    [ok |-> TRUE,
     content |-> <<"u","n","c","l","a","s","s","i","f","i","e","d">>,
     error |-> NoError],
    [ok |-> FALSE, content |-> <<>>, error |-> Flagged] }

\* req.body?.model
ModelBodies == {None, Some(Claude)}

Analyze ==
  \E req \in Requests, id \in DocIds, model \in ModelBodies,
     typeReply \in TypeReplies, reply \in AnalysisReplies :
    /\ Serve("analyze", id,
             AnalyzeResult(projects, openai, req, id, model, typeReply, reply))
    /\ UNCHANGED now

NameBodies == {None, Some(Anna)}
ThemeBodies == {None, Some("love")}

AddCharacter ==
  \E req \in Requests, id \in DocIds, character \in NameBodies :
    /\ Serve("addCharacter", id, AddCharacterResult(projects, req, id, character))
    /\ UNCHANGED now

RemoveCharacter ==
  \E req \in Requests, id \in DocIds, character \in NameBodies :
    /\ Serve("removeCharacter", id,
             RemoveCharacterResult(projects, req, id, character))
    /\ UNCHANGED now

AddTheme ==
  \E req \in Requests, id \in DocIds, theme \in ThemeBodies :
    /\ Serve("addTheme", id, AddThemeResult(projects, req, id, theme))
    /\ UNCHANGED now

RemoveTheme ==
  \E req \in Requests, id \in DocIds, theme \in ThemeBodies :
    /\ Serve("removeTheme", id, RemoveThemeResult(projects, req, id, theme))
    /\ UNCHANGED now

GridReplies ==
  { [ok |-> TRUE, episodes |-> Some("episodes"),
     characterActions |-> Some("actions"), themeAppearances |-> None],
    [ok |-> TRUE, episodes |-> Some("acts"), characterActions |-> None,
     themeAppearances |-> Some("themes")],
    [ok |-> FALSE, episodes |-> None, characterActions |-> None,
     themeAppearances |-> None] }

UpdateGrid ==
  \E req \in Requests, id \in DocIds, reply \in GridReplies :
    /\ Serve("updateGrid", id,
             UpdateGridResult(projects, openai, req, id, reply, now))
    /\ UNCHANGED now

GridBodies ==
  { [episodes |-> None, characterActions |-> None,
     sectionActions |-> Some("sections"), themeAppearances |-> None,
     characterOrder |-> Some("order")],
    [episodes |-> Some("edited"), characterActions |-> None,
     sectionActions |-> None, themeAppearances |-> Some("appearances"),
     characterOrder |-> None],
    [episodes |-> None, characterActions |-> None, sectionActions |-> None,
     themeAppearances |-> None, characterOrder |-> None] }

SaveStoryGrid ==
  \E req \in Requests, id \in DocIds, body \in GridBodies :
    /\ Serve("saveStoryGrid", id, SaveStoryGridResult(projects, req, id, body, now))
    /\ UNCHANGED now

BriefReplies == {None, Some("brief")}

Compare ==
  \E req \in Requests, id1 \in DocIds, id2 \in DocIds,
     briefReply \in BriefReplies :
    /\ served < MaxRequests
    /\ served' = served + 1
    /\ last' = [op |-> "compare",
                status |-> CompareResult(projects, openai, req, id1, id2,
                                         briefReply).status,
                projectId |-> getProjectId(req), id |-> id1, id2 |-> id2]
    /\ UNCHANGED <<projects, legacy, now, openai, writers, migration, browser, classification>>

CreateProject ==
  \E name \in {None} \cup {Some(n) : n \in NameInputs} :
    /\ Serve("createProject", 0, CreateProjectResult(projects, name, now))
    /\ UNCHANGED now

DeleteProject ==
  \E id \in {DefaultId, Show} :
    /\ Serve("deleteProject", 0, DeleteProjectResult(projects, id))
    /\ UNCHANGED now

SaveSettings ==
  \E id \in {DefaultId, Show}, aiPrompts \in {None, Some(CustomPrompts)} :
    /\ Serve("saveSettings", 0, SaveSettingsResult(projects, id, aiPrompts))
    /\ UNCHANGED now

\* a read of the projects tree: nothing on disk changes
Read(op, projectId, id, status) ==
  /\ served < MaxRequests
  /\ served' = served + 1
  /\ last' = [op |-> op, status |-> status, projectId |-> projectId,
              id |-> id, id2 |-> 0]
  /\ UNCHANGED <<projects, legacy, now, openai, writers, migration, browser, classification>>

GetStoryGrid ==
  \E req \in Requests :
    Read("storyGrid", getProjectId(req), 0, StoryGridResult(projects, req).status)

\* the server process starts again, with or without OPENROUTER_API_KEY in
\* its environment, and runs the migration
Restart ==
  \E key \in BOOLEAN :
    /\ migration = "idle"
    /\ openai' = key
    /\ LET m == migrateLegacyProject(projects, legacy, now)
       IN /\ projects' = m.tree
          /\ legacy' = m.legacy
    /\ UNCHANGED <<now, served, last, writers, migration, browser, classification>>

GetDocument ==
  \E req \in Requests, id \in DocIds :
    Read("getDocument", getProjectId(req), id,
         GetDocumentResult(projects, req, id).status)

\* a request has responded
Respond(op, status, projectId, id) ==
  /\ served' = served + 1
  /\ last' = [op |-> op, status |-> status, projectId |-> projectId,
              id |-> id, id2 |-> 0]

\* requests in flight count towards the requests of a behaviour
InFlight == Cardinality({w \in Writers : writers[w].pc = "read"})

\* POST /api/upload reaches its fs.readJSON while other requests are in
\* flight; an upload whose text cannot be extracted responds 500 here
UploadReads ==
  \E w \in Writers, req \in Requests, file \in {f \in UploadFiles : fileFilter(f)},
     later \in Later :
    LET r == UploadRead(projects, now, later, req, file)
        held == [pc |-> IF r.ok THEN "read" ELSE "done", op |-> "upload",
                 projectId |-> r.projectId, copy |-> r.copy,
                 document |-> Some(r.document), id |-> later,
                 status |-> IF r.ok THEN 0 ELSE 500]
    IN /\ writers[w].pc = "idle"
       /\ served + InFlight < MaxRequests
       /\ projects' = r.tree
       /\ now' = later
       /\ writers' = [writers EXCEPT ![w] = held]
       /\ IF r.ok THEN UNCHANGED <<served, last>>
                  ELSE Respond("upload", 500, r.projectId, later)
       /\ UNCHANGED <<legacy, openai, migration, browser, classification>>

\* POST /api/upload writes its copy back and responds
UploadWrites ==
  \E w \in Writers :
    LET h == writers[w]
    IN /\ h.pc = "read" /\ h.op = "upload"
       /\ projects' = UploadWrite(projects, h.projectId, h.copy, Get(h.document))
       /\ writers' = [writers EXCEPT ![w].pc = "done", ![w].status = 200]
       /\ Respond("upload", 200, h.projectId, h.id)
       /\ UNCHANGED <<legacy, now, openai, migration, browser, classification>>

\* DELETE /api/documents/:id reads the documents and finds the document;
\* without data file or document it responds 404 here
DeleteReads ==
  \E w \in Writers, req \in Requests, id \in DocIds :
    LET projectId == getProjectId(req)
        docs == ReadDocuments(projects, projectId)
        found == FindIndex(docs, id) # 0
        held == [pc |-> IF found THEN "read" ELSE "done", op |-> "delete",
                 projectId |-> projectId, copy |-> docs, document |-> None,
                 id |-> id, status |-> IF found THEN 0 ELSE 404]
    IN /\ writers[w].pc = "idle"
       /\ served + InFlight < MaxRequests
       /\ writers' = [writers EXCEPT ![w] = held]
       /\ IF found THEN UNCHANGED <<served, last>>
                   ELSE Respond("deleteDocument", 404, projectId, id)
       /\ UNCHANGED <<projects, legacy, now, openai, migration, browser, classification>>

\* DELETE /api/documents/:id removes the file, writes its copy back and
\* responds
DeleteWrites ==
  \E w \in Writers :
    LET h == writers[w]
    IN /\ h.pc = "read" /\ h.op = "delete"
       /\ projects' = DeleteWrite(projects, h.projectId, h.copy,
                                  FindIndex(h.copy, h.id))
       /\ writers' = [writers EXCEPT ![w].pc = "done", ![w].status = 200]
       /\ Respond("deleteDocument", 200, h.projectId, h.id)
       /\ UNCHANGED <<legacy, now, openai, migration, browser, classification>>

\* POST /api/documents/:id/analyze reads the documents and the text of the
\* document; what it answers without calling the gateway it answers here
AnalyzeReads ==
  \E w \in Writers, req \in Requests, id \in DocIds :
    LET r == AnalyzeRead(projects, openai, req, id)
        held == [pc |-> IF r.status = 0 THEN "read" ELSE "done",
                 op |-> "analyze", projectId |-> r.projectId,
                 copy |-> r.copy, document |-> None, id |-> id,
                 status |-> r.status]
    IN /\ writers[w].pc = "idle"
       /\ served + InFlight < MaxRequests
       /\ writers' = [writers EXCEPT ![w] = held]
       /\ IF r.status = 0 THEN UNCHANGED <<served, last>>
                           ELSE Respond("analyze", r.status, r.projectId, id)
       /\ UNCHANGED <<projects, legacy, now, openai, migration, browser,
                      classification>>

\* the gateway has answered: the handler writes its copy back and responds,
\* or responds 500 on the error analyzeContentWithAI throws
AnalyzeWrites ==
  \E w \in Writers, model \in ModelBodies, typeReply \in TypeReplies,
     reply \in AnalysisReplies :
    LET h == writers[w]
        document == h.copy[FindIndex(h.copy, h.id)]
        aiAnalysis ==
          analyzeContentWithAI(projects, document.filename, document.type,
                               IF IsSome(model) THEN Get(model) ELSE GPT4o,
                               typeReply, reply,
                               DefaultProjectIdParameter(h.projectId))
        status == IF aiAnalysis.ok THEN 200 ELSE 500
    IN /\ h.pc = "read" /\ h.op = "analyze"
       /\ projects' = IF aiAnalysis.ok
                        THEN AnalyzeWrite(projects, h.projectId, h.copy, h.id,
                                          aiAnalysis)
                        ELSE projects
       /\ writers' = [writers EXCEPT ![w].pc = "done", ![w].status = status]
       /\ Respond("analyze", status, h.projectId, h.id)
       /\ UNCHANGED <<legacy, now, openai, migration, browser, classification>>

\* POST /api/projects checks that no directory has the derived id; a
\* request without name or with a taken id responds 400 here
CreateReads ==
  \E w \in Writers, name \in {None} \cup {Some(n) : n \in NameInputs} :
    LET r == CreateProjectRead(projects, name, now)
        held == [pc |-> IF r.status = 0 THEN "read" ELSE "done",
                 op |-> "create", projectId |-> r.projectId, copy |-> <<>>,
                 document |-> Some(r.metadata), id |-> 0,
                 status |-> r.status]
    IN /\ writers[w].pc = "idle"
       /\ served + InFlight < MaxRequests
       /\ writers' = [writers EXCEPT ![w] = held]
       /\ IF r.status = 0 THEN UNCHANGED <<served, last>>
                           ELSE Respond("createProject", 400, r.projectId, 0)
       /\ UNCHANGED <<projects, legacy, now, openai, migration, browser,
                      classification>>

\* POST /api/projects creates the directories, writes the metadata and the
\* empty documents file, and responds
CreateWrites ==
  \E w \in Writers :
    LET h == writers[w]
    IN /\ h.pc = "read" /\ h.op = "create"
       /\ projects' = CreateProjectWrite(projects, h.projectId,
                                         Get(h.document))
       /\ writers' = [writers EXCEPT ![w].pc = "done", ![w].status = 200]
       /\ Respond("createProject", 200, h.projectId, 0)
       /\ UNCHANGED <<legacy, now, openai, migration, browser, classification>>

\* the server starts: migrateLegacyProject runs up to its move of the data
\* file while app.listen has the server accept requests
MigrationMovesData ==
  LET m == MoveData(projects, legacy)
  IN /\ migration = "idle"
     /\ projects' = m.tree
     /\ legacy' = m.legacy
     /\ migration' = m.next
     /\ last' = [op |-> "migrate", status |-> m.log, projectId |-> DefaultId,
                 id |-> 0, id2 |-> 0]
     /\ UNCHANGED <<now, openai, served, writers, browser, classification>>

\* migrateLegacyProject moves the uploads and writes project.json
MigrationMovesUploads ==
  LET m == MoveRest(projects, legacy, now)
  IN /\ migration = "uploads"
     /\ projects' = m.tree
     /\ legacy' = m.legacy
     /\ migration' = "idle"
     /\ last' = [op |-> "migrate", status |-> m.log, projectId |-> DefaultId,
                 id |-> 0, id2 |-> 0]
     /\ UNCHANGED <<now, openai, served, writers, browser, classification>>

\* the filenames and texts handed to classifyDocument
Filenames ==
  { <<"n","o","t","e","s",".","d","o","c","x">>,
    <<"P","i","t","c","h"," ","N","o","t","e","s"," ","v","2",".","d","o","c",
      "x">>,
    <<"c","o","n","t","r","a","c","t"," ","n","o","t","e","s",".","d","o","c",
      "x">>,
    <<"n","o","t","e","s"," ","o","n"," ","o","p","t","i","o","n",".","p","d",
      "f">>,
    <<"p","i","t","c","h",".","d","o","c","x">>,
    <<"2","4","0","1","0","1",".","r","t","f">>,
    <<"s","t","o","r","y",".","p","d","f">> }

Excerpts ==
  { <<"t","h","e"," ","l","o","g","l","i","n","e">>,
    <<"t","o","n","e"," ","a","n","d"," ","g","e","n","r","e">>,
    <<"s","i","m","i","l","a","r"," ","t","o">>,
    <<"t","e","r","m","s"," ","o","f"," ","t","h","e"," ","a","g","r","e","e",
      "m","e","n","t"," ","a","n","d"," ","t","h","e"," ","l","o","g","l","i",
      "n","e">>,
    <<"f","e","e","d","b","a","c","k">>,
    <<"h","e","l","l","o">> }

Paddings == {0, 1500, 3000}

\* classifyDocument is called on a filename and a text; the function keeps
\* no state, so one call per behaviour shows all it does
ClassifyDocument ==
  \E filename \in Filenames, chars \in Excerpts, padding \in Paddings :
    LET text == [chars |-> chars, padding |-> padding]
    IN /\ classification = None
       /\ classification' =
            Some([filename |-> filename, text |-> text,
                  type |-> classifyDocument(filename, text)])
       /\ UNCHANGED <<projects, legacy, now, openai, served, last, writers,
                      migration, browser>>

\* nothing but the page changes
Browse ==
  UNCHANGED <<projects, legacy, now, openai, served, last, writers,
              migration, classification>>

\* a page calls checkProjectSelection: the fetch of /api/projects is sent
CheckProjectSelection ==
  /\ browser.pc = "idle"
  /\ browser' = [browser EXCEPT !.pc = "fetching"]
  /\ Browse

\* the fetch ends: the server has answered from the projects it has now,
\* or the fetch is rejected
ProjectsFetched ==
  \E response \in ProjectsResponses(projects) :
    /\ browser.pc = "fetching"
    /\ browser' = [browser EXCEPT !.pc = "fetched", !.response = response]
    /\ Browse

\* checkProjectSelection runs on from its await to its end
SelectionChecked ==
  /\ browser.pc = "fetched"
  /\ browser' = [checkProjectSelection(browser, browser.response)
                   EXCEPT !.pc = "idle"]
  /\ Browse

\* the pages other than the management page check the selection on load
OnLoad(pathname) == IF pathname = ManagementPage THEN "idle" ELSE "fetching"

\* the change handler of the project switcher, whose options are the
\* listed projects: the id is stored and the page reloads
SelectProject ==
  \E id \in DOMAIN projects :
    /\ browser.pc = "idle"
    /\ browser' = [setCurrentProjectId(browser, id)
                     EXCEPT !.pc = OnLoad(browser.pathname)]
    /\ Browse

\* the user follows a link to the other page
Navigate ==
  \E pathname \in {StartPage, ManagementPage} \ {browser.pathname} :
    /\ browser.pc = "idle"
    /\ browser' = [browser EXCEPT !.pathname = pathname,
                                  !.pc = OnLoad(pathname)]
    /\ Browse

\* fetchWithProject without headers of its own, on the story grid
FetchWithProject ==
  LET req == [header |-> Some(getHeaders(browser).XProjectId), query |-> None]
  IN Read("fetchWithProject", getProjectId(req), 0,
          StoryGridResult(projects, req).status)

Next ==
  \/ Migrate
  \/ Restart
  \/ LegacyUpload
  \/ Upload
  \/ DeleteDocument
  \/ Analyze
  \/ AddCharacter
  \/ RemoveCharacter
  \/ AddTheme
  \/ RemoveTheme
  \/ UpdateGrid
  \/ SaveStoryGrid
  \/ Compare
  \/ GetDocument
  \/ UploadReads
  \/ UploadWrites
  \/ DeleteReads
  \/ DeleteWrites
  \/ AnalyzeReads
  \/ AnalyzeWrites
  \/ CreateReads
  \/ CreateWrites
  \/ ClassifyDocument
  \/ MigrationMovesData
  \/ MigrationMovesUploads
  \/ GetStoryGrid
  \/ CreateProject
  \/ DeleteProject
  \/ SaveSettings
  \/ CheckProjectSelection
  \/ ProjectsFetched
  \/ SelectionChecked
  \/ SelectProject
  \/ Navigate
  \/ FetchWithProject

Spec == Init /\ [][Next]_vars

\* the document requests alone, on the projects that uploads and the
\* migration leave
NextDocuments ==
  \/ Migrate
  \/ LegacyUpload
  \/ Upload
  \/ DeleteDocument
  \/ Analyze
  \/ AddCharacter
  \/ RemoveCharacter
  \/ AddTheme
  \/ RemoveTheme
  \/ UpdateGrid
  \/ SaveStoryGrid
  \/ Compare

SpecDocuments == Init /\ [][NextDocuments]_vars

\* project management, with uploads and analysis
NextProjects ==
  \/ Migrate
  \/ Upload
  \/ Analyze
  \/ CreateProject
  \/ DeleteProject
  \/ SaveSettings

SpecProjects == Init /\ [][NextProjects]_vars

\* the two servers of the repository on one disk: the single-project server
\* uploads, the migration moves its documents, the multi-project server
\* uploads and edits characters
NextLegacy ==
  \/ Migrate
  \/ LegacyUpload
  \/ Upload
  \/ DeleteDocument
  \/ Analyze
  \/ AddCharacter
  \/ RemoveCharacter

SpecLegacy == Init /\ [][NextLegacy]_vars

(***************************************************************************)
(* Document comparison on analysed documents: the tree left by two uploads *)
(* into `default` and one analysis of each, whose replies carry the        *)
(* themes.                                                                 *)
(***************************************************************************)
ThemeLists ==
  { <<>>, <<"a">>, <<"a", "b">>, <<"a", "b", "c">>, <<"b", "c", "d">>,
    <<"d", "a">>, <<"a", "a", "b">>,
    SubSeq(themeKeywords, 1, 8),
    Append(SubSeq(themeKeywords, 1, 8), "a") }

Bare == [header |-> None, query |-> None]

Pitch ==
  CHOOSE f \in UploadFiles : f.originalname.stem = "pitch"

Draft ==
  CHOOSE f \in UploadFiles : f.originalname.stem = "draft"

ThemesReply(themes) ==
  [ok |-> TRUE, characters |-> Some(<<>>), themes |-> Some(themes),
   error |-> NoError]

Analysed(themes1, themes2) ==
  LET empty == [q \in {} |-> EmptyDir]
      typeReply == CHOOSE t \in TypeReplies : TRUE
      one == UploadResult(empty, 1, 1, Bare, Some(Pitch)).tree
      two == UploadResult(one, 2, 2, Bare, Some(Draft)).tree
      three == AnalyzeResult(two, TRUE, Bare, 1, None, typeReply,
                             ThemesReply(themes1)).tree
  IN AnalyzeResult(three, TRUE, Bare, 2, None, typeReply,
                   ThemesReply(themes2)).tree

InitCompare ==
  /\ projects \in {Analysed(t1, t2) : t1 \in ThemeLists, t2 \in ThemeLists}
  /\ legacy = NoLegacy
  /\ now = 2
  /\ openai = TRUE
  /\ served = 0
  /\ last = Started
  /\ writers = [w \in Writers |-> Idle]
  /\ migration = "idle"
  /\ browser = Loaded
  /\ classification = None

NextCompare == Compare

SpecCompare == InitCompare /\ [][NextCompare]_vars

\* the story grid of the documents that uploads, the migration, analyses
\* and edits of characters and themes leave
NextGrid ==
  \/ Migrate
  \/ Upload
  \/ DeleteDocument
  \/ Analyze
  \/ AddCharacter
  \/ AddTheme
  \/ GetStoryGrid

SpecGrid == Init /\ [][NextGrid]_vars

\* the AI requests and the comparison on a server that is started with and
\* without a credential
NextCredential ==
  \/ Restart
  \/ Upload
  \/ Analyze
  \/ AddCharacter
  \/ UpdateGrid
  \/ Compare

SpecCredential == Init /\ [][NextCredential]_vars

\* the story grid of a document: generated, then saved
NextStoryGrid ==
  \/ Migrate
  \/ Upload
  \/ AddCharacter
  \/ UpdateGrid
  \/ SaveStoryGrid

SpecStoryGrid == Init /\ [][NextStoryGrid]_vars

\* requests that overlap in time: uploads and deletes taken in their two
\* halves, on an empty tree and on the tree one upload into `default` leaves
InitWriters ==
  /\ projects \in { [q \in {} |-> EmptyDir],
                    UploadResult([q \in {} |-> EmptyDir], 1, 1, Bare,
                                 Some(Pitch)).tree }
  /\ legacy = NoLegacy
  /\ now = 1
  /\ openai = TRUE
  /\ served = 0
  /\ last = Started
  /\ writers = [w \in Writers |-> Idle]
  /\ migration = "idle"
  /\ browser = Loaded
  /\ classification = None

NextWriters ==
  \/ UploadReads
  \/ UploadWrites
  \/ DeleteReads
  \/ DeleteWrites

SpecWriters == InitWriters /\ [][NextWriters]_vars

\* the start of the server on either layout: the migration in its two
\* halves while requests of both servers' clients arrive
NextStartup ==
  \/ MigrationMovesData
  \/ MigrationMovesUploads
  \/ LegacyUpload
  \/ Upload
  \/ GetDocument
  \/ CreateProject

SpecStartup == Init /\ [][NextStartup]_vars

\* the analysis of uploaded documents under the settings of their projects
NextAnalysis ==
  \/ Upload
  \/ SaveSettings
  \/ Analyze

SpecAnalysis == Init /\ [][NextAnalysis]_vars

\* the rule-based classification on its own
NextClassify == ClassifyDocument

SpecClassify == Init /\ [][NextClassify]_vars

\* the browser page and the project requests that change what it lists
NextBrowser ==
  \/ Migrate
  \/ CreateProject
  \/ DeleteProject
  \/ CheckProjectSelection
  \/ ProjectsFetched
  \/ SelectionChecked
  \/ SelectProject
  \/ Navigate
  \/ FetchWithProject

SpecBrowser == Init /\ [][NextBrowser]_vars

\* deletes and analyses that overlap in time, on the trees of SpecWriters
NextEdits ==
  \/ DeleteReads
  \/ DeleteWrites
  \/ AnalyzeReads
  \/ AnalyzeWrites

SpecEdits == InitWriters /\ [][NextEdits]_vars

\* project creations that overlap in time, and uploads
NextCreates ==
  \/ CreateReads
  \/ CreateWrites
  \/ Upload

SpecCreates == Init /\ [][NextCreates]_vars

(***************************************************************************)
(* Properties.                                                             *)
(***************************************************************************)
\* a request was served by this step
Served == served' = served + 1

DocumentRequests ==
  { "upload", "deleteDocument", "analyze", "addCharacter", "removeCharacter",
    "addTheme", "removeTheme", "updateGrid", "saveStoryGrid" }

LegacyDocuments(old) ==
  IF IsSome(old.data) THEN Get(old.data).documents ELSE <<>>

IsSortedByDate(docs) ==
  \A i \in 1..(Len(docs) - 1) : docs[i].date <= docs[i + 1].date

\* C1: in every reachable state the documents stored in each project are in
\* ascending order of date, and GET /api/documents returns them in that order
C1_DocumentsSortedByDate ==
  /\ \A p \in DOMAIN projects : IsSortedByDate(ReadDocuments(projects, p))
  /\ \A req \in Requests :
       /\ IsSortedByDate(GetDocuments(projects, req))
       /\ GetDocuments(projects, req) = ReadDocuments(projects, getProjectId(req))

\* an upload has just put a document in front of one that was uploaded
\* before it
C1_Witness ==
  /\ last.op = "upload"
  /\ last.status = 200
  /\ LET docs == ReadDocuments(projects, last.projectId)
     IN /\ Len(docs) >= 2
        /\ docs[1].id = last.id
        /\ docs[1].date < docs[2].date
        /\ docs[1].id > docs[2].id

\* C2: a successful upload leaves a document of type unclassified, not AI
\* enhanced and without characters, and every stored document either keeps
\* the characters it had or is the one a successful analyze, add-character or
\* remove-character request named
C2_UploadLeavesCharactersEmpty ==
  [][ /\ (Served /\ last'.status = 200
            /\ last'.op \in {"upload", "legacyUpload"}) =>
          LET docs == IF last'.op = "upload"
                        THEN ReadDocuments(projects', last'.projectId)
                        ELSE LegacyDocuments(legacy')
          IN \E k \in 1..Len(docs) :
               /\ docs[k].id = last'.id
               /\ docs[k].type = "unclassified"
               /\ docs[k].aiEnhanced = FALSE
               /\ docs[k].characters = Some(<<>>)
      /\ \A p \in DOMAIN projects' :
           \A k \in 1..Len(ReadDocuments(projects', p)) :
             LET d == ReadDocuments(projects', p)[k]
                 before == ReadDocuments(projects, p)
                 moved == IF Served THEN <<>> ELSE LegacyDocuments(legacy)
             IN \/ \E j \in 1..Len(before) :
                     before[j].id = d.id /\ before[j].characters = d.characters
                \/ \E j \in 1..Len(moved) :
                     moved[j].id = d.id /\ moved[j].characters = d.characters
                \/ /\ Served
                   /\ last'.status = 200
                   /\ last'.op = "upload"
                   /\ last'.projectId = p
                   /\ last'.id = d.id
                   /\ d.characters = Some(<<>>)
                \/ /\ Served
                   /\ last'.status = 200
                   /\ last'.op \in {"analyze", "addCharacter", "removeCharacter"}
                   /\ last'.projectId = p
                   /\ last'.id = d.id ]_vars

NoDuplicates(list) ==
  \A i \in 1..Len(list), j \in 1..Len(list) : list[i] = list[j] => i = j

\* C3: no stored document lists a character or a theme twice, and adding a
\* character or theme that the document already lists responds 400 and
\* leaves the tree as it is
C3_NoDuplicateCharactersOrThemes ==
  /\ \A p \in DOMAIN projects :
       \A k \in 1..Len(ReadDocuments(projects, p)) :
         LET d == ReadDocuments(projects, p)[k]
         IN /\ IsSome(d.characters) => NoDuplicates(Get(d.characters))
            /\ IsSome(d.themes) => NoDuplicates(Get(d.themes))
  /\ \A req \in Requests, id \in DocIds :
       LET docs == GetDocuments(projects, req)
           k == FindIndex(docs, id)
       IN k # 0 =>
            /\ \A c \in {Anna, Zoe} :
                 (IsSome(docs[k].characters)
                    /\ Includes(Get(docs[k].characters), c)) =>
                   LET r == AddCharacterResult(projects, req, id, Some(c))
                   IN r.status = 400 /\ r.tree = projects
            /\ \A t \in {"love", "power"} :
                 (IsSome(docs[k].themes) /\ Includes(Get(docs[k].themes), t)) =>
                   LET r == AddThemeResult(projects, req, id, Some(t))
                   IN r.status = 400 /\ r.tree = projects

Ids(docs) == {docs[k].id : k \in 1..Len(docs)}

\* C4: a document request resolved to project P leaves every other project
\* as it was, and no document id is stored in two projects
C4_DocumentRequestsStayInTheirProject ==
  [][ /\ (Served /\ last'.op \in DocumentRequests) =>
          \A q \in DOMAIN projects \ {last'.projectId} :
            q \in DOMAIN projects' /\ projects'[q] = projects[q]
      /\ \A p \in DOMAIN projects', q \in DOMAIN projects' :
           p # q => Ids(ReadDocuments(projects', p))
                      \cap Ids(ReadDocuments(projects', q)) = {} ]_vars

\* C5: a project directory appears only by a successful POST /api/projects
\* or, as `default`, by the startup migration
C5_ProjectsOnlyCreatedExplicitly ==
  [][ \A p \in ListProjects(projects') \ ListProjects(projects) :
        \/ /\ Served
           /\ last'.op = "createProject"
           /\ last'.status = 200
           /\ last'.projectId = p
        \/ /\ ~Served
           /\ p = DefaultId ]_vars

\* C6: the completion request that the analysis of a document of project P
\* sends carries the model and prompt of P's override for the slot of the
\* document's type, the built-in ones when P does not override that slot
C6_AnalysisUsesProjectPrompts ==
  \A req \in Requests, id \in DocIds, typeReply \in TypeReplies,
     reply \in AnalysisReplies :
    LET r == AnalyzeResult(projects, openai, req, id, None, typeReply, reply)
        P == getProjectId(req)
        docs == ReadDocuments(projects, P)
        document == docs[FindIndex(docs, id)]
        slot == SlotOf(IF document.type = "unclassified"
                         THEN classifyDocumentWithAI(typeReply, GPT4o).type
                         ELSE document.type)
        overrides == IF IsSome(projects[P].settings)
                       THEN Get(projects[P].settings).aiPrompts ELSE {}
        own == IF \E c \in overrides : c.slot = slot
                 THEN CHOOSE c \in overrides : c.slot = slot
                 ELSE CHOOSE c \in DEFAULT_AI_PROMPTS : c.slot = slot
    IN IsSome(r.sent) =>
         /\ Get(r.sent).model = own.model
         /\ Get(r.sent).prompt = own.prompt

\* C7 as stated: the header decides whenever it is present, the query
\* parameter whenever it is present without the header, `default` otherwise,
\* and the upload destination is the project of the upload handler
C7_HeaderThenQueryThenDefault ==
  \A req \in Requests :
    /\ getProjectId(req) =
         IF IsSome(req.header) THEN Get(req.header)
         ELSE IF IsSome(req.query) THEN Get(req.query)
         ELSE DefaultId
    /\ \A upload \in {Some(f) : f \in UploadFiles}, later \in Later :
         LET r == UploadResult(projects, now, later, req, upload)
         IN r.dest = r.projectId

\* C7: the header decides when it is present and not empty, otherwise the
\* query parameter when it is present and not empty, otherwise `default`;
\* an accepted upload stores its file and its document in that one project
C7_ActiveProjectId ==
  \A req \in Requests :
    LET header == IsSome(req.header) /\ Get(req.header) # EmptyString
        query == IsSome(req.query) /\ Get(req.query) # EmptyString
        P == IF header THEN Get(req.header)
             ELSE IF query THEN Get(req.query)
             ELSE DefaultId
    IN /\ getProjectId(req) = P
       /\ \A upload \in {Some(f) : f \in UploadFiles}, later \in Later :
            LET r == UploadResult(projects, now, later, req, upload)
                storedName == [ts |-> now,
                               originalname |-> Get(upload).originalname]
            IN /\ r.dest = P
               /\ r.projectId = P
               /\ \A q \in DOMAIN r.tree \ {P} :
                    q \in DOMAIN projects /\ r.tree[q] = projects[q]
               /\ r.status = 200 =>
                    /\ \E f \in r.tree[P].uploads : f.name = storedName
                    /\ \E k \in 1..Len(ReadDocuments(r.tree, P)) :
                         /\ ReadDocuments(r.tree, P)[k].id = later
                         /\ ReadDocuments(r.tree, P)[k].filePath = storedName

\* an upload whose header names one project and whose query names another
\* has stored its file and its document in the project of the header
C7_Witness ==
  /\ last.op = "upload"
  /\ last.status = 200
  /\ last.projectId = Show
  /\ \E k \in 1..Len(ReadDocuments(projects, Show)) :
       LET d == ReadDocuments(projects, Show)[k]
       IN d.id = last.id /\ \E f \in projects[Show].uploads : f.name = d.filePath

\* the characters a-z and 0-9 of a string, in their order
Alnums(s) == SelectSeq(s, IsAlnum)

\* C8: the id derived from a name is the lower-cased name with its letters
\* and digits kept in order and single hyphens only between them ("My Show
\* 2!" gives "my-show-2"); a create whose id exists responds 400 and leaves
\* the tree unchanged, and a create that succeeds adds exactly that project
C8_ProjectIdFromName ==
  /\ ProjectIdFromName(<<"M","y"," ","S","h","o","w"," ","2","!">>)
       = <<"m","y","-","s","h","o","w","-","2">>
  /\ \A name \in NameInputs :
       LET id == ProjectIdFromName(name)
           r == CreateProjectResult(projects, Some(name), now)
       IN /\ \A i \in 1..Len(id) : IsAlnum(id[i]) \/ id[i] = "-"
          /\ Alnums(id) = Alnums(ToLowerCase(name))
          /\ id # <<>> => id[1] # "-" /\ id[Len(id)] # "-"
          /\ \A i \in 1..(Len(id) - 1) : ~(id[i] = "-" /\ id[i + 1] = "-")
          /\ id \in DOMAIN projects => r.status = 400 /\ r.tree = projects
          /\ r.status \in {200, 400}
          /\ r.status = 400 => r.tree = projects
          /\ r.status = 200 =>
               /\ id \notin DOMAIN projects
               /\ DOMAIN r.tree = DOMAIN projects \cup {id}
               /\ \A q \in DOMAIN projects : r.tree[q] = projects[q]
               /\ Get(r.tree[id].meta).id = id
               /\ ReadDocuments(r.tree, id) = <<>>

\* a create has just been refused because its id is that of a project which
\* holds a document
C8_Witness ==
  /\ last.op = "createProject"
  /\ last.status = 400
  /\ last.projectId \in DOMAIN projects
  /\ Len(ReadDocuments(projects, last.projectId)) >= 1

\* C9: for two stored documents A and B of a project with A.date before
\* B.date, comparing A with B and B with A give the same status, doc1, doc2
\* and statistics, and a comparison that succeeds has A as doc1 and B as doc2
C9_CompareEitherOrder ==
  \A req \in Requests, i \in DocIds, j \in DocIds :
    LET docs == GetDocuments(projects, req)
        a == FindIndex(docs, i)
        b == FindIndex(docs, j)
        ab == CompareResult(projects, openai, req, i, j, None)
        ba == CompareResult(projects, openai, req, j, i, None)
    IN (a # 0 /\ b # 0 /\ docs[a].date < docs[b].date) =>
         /\ ab.status = ba.status
         /\ ab.doc1 = ba.doc1
         /\ ab.doc2 = ba.doc2
         /\ ab.stats = ba.stats
         /\ ab.status = 200 =>
              /\ Get(ab.doc1).id = i
              /\ Get(ab.doc1).date = docs[a].date
              /\ Get(ab.doc2).id = j
              /\ Get(ab.doc2).date = docs[b].date

\* a comparison has just succeeded whose first id names the later document
C9_Witness ==
  /\ last.op = "compare"
  /\ last.status = 200
  /\ LET docs == ReadDocuments(projects, last.projectId)
         first == FindIndex(docs, last.id)
         second == FindIndex(docs, last.id2)
     IN first # 0 /\ second # 0 /\ docs[first].date > docs[second].date

\* the number of positions of a list whose element is, or is not, in another
CountIn(list, other) ==
  Cardinality({k \in 1..Len(list) : list[k] \in Range(other)})

CountNotIn(list, other) ==
  Cardinality({k \in 1..Len(list) : list[k] \notin Range(other)})

\* C10: of a successful comparison, newThemes are the themes of doc2 that
\* doc1 lacks, removedThemes those of doc1 that doc2 lacks, unchangedThemes
\* those of doc1 that doc2 has; totalChange is their number new plus
\* removed, netChange the difference of the list lengths, shiftPercentage
\* the integer nearest to 100 * totalChange / |doc1.themes| (halves upward),
\* 0 when doc1 has no themes; [a,b,c] against [b,c,d] gives 67
C10_ThematicShift ==
  \A req \in Requests, i \in DocIds, j \in DocIds :
    LET r == CompareResult(projects, openai, req, i, j, None)
        t1 == Get(Get(r.doc1).themes)
        t2 == Get(Get(r.doc2).themes)
        stats == Get(r.stats)
        shift == stats.thematicShift
        n == Len(t1)
    IN r.status = 200 =>
         /\ Range(stats.newThemes) = Range(t2) \ Range(t1)
         /\ Range(stats.removedThemes) = Range(t1) \ Range(t2)
         /\ Range(stats.unchangedThemes) = Range(t1) \cap Range(t2)
         /\ Len(stats.newThemes) = CountNotIn(t2, t1)
         /\ Len(stats.removedThemes) = CountNotIn(t1, t2)
         /\ Len(stats.unchangedThemes) = CountIn(t1, t2)
         /\ shift.added = Len(stats.newThemes)
         /\ shift.removed = Len(stats.removedThemes)
         /\ shift.unchanged = Len(stats.unchangedThemes)
         /\ shift.totalChange = Len(stats.newThemes) + Len(stats.removedThemes)
         /\ shift.netChange = Len(t2) - Len(t1)
         /\ n = 0 => shift.shiftPercentage = 0
         /\ n > 0 =>
              /\ 2 * n * shift.shiftPercentage - n <= 200 * shift.totalChange
              /\ 200 * shift.totalChange < 2 * n * shift.shiftPercentage + n
         /\ (t1 = <<"a", "b", "c">> /\ t2 = <<"b", "c", "d">>) =>
              /\ stats.newThemes = <<"d">>
              /\ stats.removedThemes = <<"a">>
              /\ stats.unchangedThemes = <<"b", "c">>
              /\ shift.shiftPercentage = 67

\* the documents with themes [a,b,c] and [b,c,d] have just been compared
C10_Witness ==
  /\ last.op = "compare"
  /\ last.status = 200
  /\ LET docs == ReadDocuments(projects, last.projectId)
     IN /\ Len(docs) = 2
        /\ {last.id, last.id2} = {docs[1].id, docs[2].id}
        /\ docs[1].themes = Some(<<"a", "b", "c">>)
        /\ docs[2].themes = Some(<<"b", "c", "d">>)

\* the positions of the documents whose list holds the name
Holding(name, lists) == {k \in 1..Len(lists) : name \in Range(lists[k])}

\* a row for a name that is in K of the N lists: N records in ascending date
\* order, one per document, K as total, the earliest and latest date of a
\* document holding the name as first and last appearance
RowIsComplete(row, docs, lists) ==
  LET N == Len(docs)
      holding == Holding(row.name, lists)
  IN /\ Len(row.appearances) = N
     /\ \A k \in 1..(N - 1) :
          row.appearances[k].docDate <= row.appearances[k + 1].docDate
     /\ \A k \in 1..N :
          /\ row.appearances[k].docId = docs[k].id
          /\ row.appearances[k].docDate = docs[k].date
          /\ row.appearances[k].present = (k \in holding)
     /\ holding # {}
     /\ row.totalAppearances = Cardinality(holding)
     /\ IsSome(row.firstAppearance)
     /\ IsSome(row.lastAppearance)
     /\ \E k \in holding : docs[k].date = Get(row.firstAppearance)
     /\ \A k \in holding : docs[k].date >= Get(row.firstAppearance)
     /\ \E k \in holding : docs[k].date = Get(row.lastAppearance)
     /\ \A k \in holding : docs[k].date <= Get(row.lastAppearance)

\* C11: in the story grid of every project each character that some document
\* lists has exactly one row, and the row of a character listed by K of the
\* N documents has N appearance records in ascending date order,
\* totalAppearances K and the dates of the earliest and the latest document
\* listing it as firstAppearance and lastAppearance; the same for themes
C11_StoryGridRows ==
  \A req \in Requests :
    LET grid == StoryGridResult(projects, req)
        docs == GetDocuments(projects, req)
        characters == [k \in 1..Len(docs) |-> OrEmpty(docs[k].characters)]
        themes == [k \in 1..Len(docs) |-> OrEmpty(docs[k].themes)]
    IN /\ grid.documents = docs
       /\ \A r \in 1..Len(grid.characterGrid) :
            RowIsComplete(grid.characterGrid[r], docs, characters)
       /\ \A r \in 1..Len(grid.themeGrid) :
            RowIsComplete(grid.themeGrid[r], docs, themes)
       /\ \A c \in FlatMap(characters) :
            Cardinality({r \in 1..Len(grid.characterGrid) :
                           grid.characterGrid[r].name = c}) = 1
       /\ \A t \in FlatMap(themes) :
            Cardinality({r \in 1..Len(grid.themeGrid) :
                           grid.themeGrid[r].name = t}) = 1

\* the story grid of a project with two documents has just been read, and a
\* character is listed by one of them only
C11_Witness ==
  /\ last.op = "storyGrid"
  /\ last.status = 200
  /\ LET docs == ReadDocuments(projects, last.projectId)
         characters == [k \in 1..Len(docs) |-> OrEmpty(docs[k].characters)]
     IN /\ Len(docs) = 2
        /\ \E c \in FlatMap(characters) :
             Cardinality(Holding(c, characters)) = 1

\* C12: on a server without credential every analyze and update-grid request
\* responds 400 and leaves the tree as it is, and every comparison of two
\* stored documents of a project responds 200 with an absent brief
C12_WithoutCredential ==
  ~openai =>
    \A req \in Requests, i \in DocIds :
      /\ \A model \in ModelBodies, typeReply \in TypeReplies,
            reply \in AnalysisReplies :
           LET r == AnalyzeResult(projects, openai, req, i, model, typeReply,
                                  reply)
           IN r.status = 400 /\ r.tree = projects
      /\ \A reply \in GridReplies :
           LET r == UpdateGridResult(projects, openai, req, i, reply, now)
           IN r.status = 400 /\ r.tree = projects
      /\ \A j \in DocIds, briefReply \in BriefReplies :
           LET docs == GetDocuments(projects, req)
               r == CompareResult(projects, openai, req, i, j, briefReply)
           IN (FindIndex(docs, i) # 0 /\ FindIndex(docs, j) # 0) =>
                r.status = 200 /\ r.brief = None

\* C13: an upload of a .pages file, or of a file whose MIME type is none of
\* the four allowed and whose extension is none of .docx, .pdf and .rtf, is
\* answered with 400 and adds no document to any project
C13_UnsupportedTypeIs400 ==
  \A req \in Requests, file \in UploadFiles, later \in Later :
    LET r == UploadResult(projects, now, later, req, Some(file))
        ext == file.originalname.ext
        unsupported ==
          \/ ext = ".pages"
          \/ /\ file.mimetype \notin
                  { "application/vnd.openxmlformats-officedocument.wordprocessingml.document",
                    "application/pdf", "application/rtf", "text/rtf" }
             /\ ext \notin {".docx", ".pdf", ".rtf"}
    IN unsupported =>
         /\ r.status = 400
         /\ DOMAIN r.tree = DOMAIN projects
         /\ \A p \in DOMAIN projects :
              ReadDocuments(r.tree, p) = ReadDocuments(projects, p)

\* C14: a DELETE of a stored document responds 200, removes its record and
\* its upload file, leaves the other documents of the project with their
\* content in their order, and a GET of the same id then responds 404; a
\* DELETE of an id that is not stored responds 404 and changes nothing
C14_DeleteRemovesFileAndRecord ==
  \A req \in Requests, id \in DocIds :
    LET P == getProjectId(req)
        before == ReadDocuments(projects, P)
        r == DeleteDocumentResult(projects, req, id)
        after == ReadDocuments(r.tree, P)
    IN IF \E k \in 1..Len(before) : before[k].id = id
         THEN /\ r.status = 200
              /\ \E k \in 1..Len(before) :
                   /\ before[k].id = id
                   /\ Len(after) = Len(before) - 1
                   /\ \A j \in 1..(k - 1) : after[j] = before[j]
                   /\ \A j \in k..Len(after) : after[j] = before[j + 1]
                   /\ r.tree[P].uploads =
                        {f \in projects[P].uploads : f.name # before[k].filePath}
              /\ GetDocumentResult(r.tree, req, id).status = 404
              /\ \A q \in DOMAIN projects \ {P} :
                   q \in DOMAIN r.tree /\ r.tree[q] = projects[q]
         ELSE r.status = 404 /\ r.tree = projects

UpdateGridConforms(tree) ==
  \A req \in Requests, id \in DocIds, reply \in GridReplies :
    LET P == getProjectId(req)
        before == ReadDocuments(tree, P)
        k == FindIndex(before, id)
        r == UpdateGridResult(tree, openai, req, id, reply, now)
        after == ReadDocuments(r.tree, P)
    IN /\ (openai /\ k # 0 /\ OrEmpty(before[k].characters) = <<>>) =>
            r.status = 400 /\ r.sent = None /\ r.tree = tree
       /\ r.sent # None => (k # 0 /\ Len(OrEmpty(before[k].characters)) >= 1)
       /\ r.status = 200 =>
            /\ r.sent # None
            /\ after = [before EXCEPT
                          ![k] = [@ EXCEPT
                                    !.episodes = reply.episodes,
                                    !.characterActions = reply.characterActions,
                                    !.themeAppearances =
                                      IF reply.themeAppearances # None
                                        THEN reply.themeAppearances
                                        ELSE Some("{}"),
                                    !.inStoryGrid = TRUE,
                                    !.gridUpdatedAt = Some(now)]]
       /\ r.status # 200 => r.tree = tree

\* C16: update-grid on a stored document whose characters list is empty or
\* absent responds 400, sends nothing to the gateway and changes nothing; the
\* gateway is called only for a document with at least one character; a
\* request that responds 200 has set episodes and characterActions to the
\* reply's, themeAppearances to the reply's or {}, inStoryGrid to true and
\* gridUpdatedAt to the time: in the stored state and in the state that one
\* DELETE of a document leaves
C16_UpdateGridNeedsCharacters ==
  /\ UpdateGridConforms(projects)
  /\ \A req \in Requests, id \in DocIds :
       UpdateGridConforms(DeleteDocumentResult(projects, req, id).tree)

\* the entries of a list other than one name, in their order
RECURSIVE Others(_, _)
Others(list, name) ==
  IF list = <<>> THEN <<>>
  ELSE IF Head(list) = name THEN Others(Tail(list), name)
  ELSE <<Head(list)>> \o Others(Tail(list), name)

\* C17: a DELETE of a name from the characters (themes) of a document
\* responds 404 without a change when the document is not stored, 400
\* without a change when the document's list is empty or absent, and else
\* 200 with every occurrence of the name removed and the other entries, and
\* every other document, as they were
C17_RemoveNeedsAList ==
  \A req \in Requests, id \in DocIds :
    LET P == getProjectId(req)
        before == ReadDocuments(projects, P)
        k == FindIndex(before, id)
        c == RemoveCharacterResult(projects, req, id, Some(Anna))
        t == RemoveThemeResult(projects, req, id, Some("love"))
    IN IF k = 0
         THEN /\ c.status = 404 /\ c.tree = projects
              /\ t.status = 404 /\ t.tree = projects
         ELSE /\ IF OrEmpty(before[k].characters) = <<>>
                   THEN c.status = 400 /\ c.tree = projects
                   ELSE /\ c.status = 200
                        /\ ReadDocuments(c.tree, P) =
                             [before EXCEPT ![k].characters =
                                Some(Others(Get(@), Anna))]
              /\ IF OrEmpty(before[k].themes) = <<>>
                   THEN t.status = 400 /\ t.tree = projects
                   ELSE /\ t.status = 200
                        /\ ReadDocuments(t.tree, P) =
                             [before EXCEPT ![k].themes =
                                Some(Others(Get(@), "love"))]

\* the documents a writer's own copy holds after its change
Changed(h) ==
  IF h.op = "upload" THEN SortByDate(Append(h.copy, Get(h.document)))
  ELSE Splice(h.copy, FindIndex(h.copy, h.id))

\* no other request in flight or answered names the writer's project
AloneInProject(w) ==
  \A v \in Writers \ {w} :
    writers[v].pc = "idle" \/ writers[v].projectId # writers[w].projectId

\* C18: a writer that writes project-data.json back stores its own copy with
\* its own change whatever the file holds by then, so the change of a
\* request that wrote in between is gone; no step of a writer touches
\* another project, and a writer that succeeded while no other request
\* named its project finds its change stored
C18_LastWriterWins ==
  [][\A w \in Writers :
       LET h == writers[w]
           P == writers'[w].projectId
       IN /\ writers'[w] # h =>
               /\ \A Q \in DOMAIN projects \ {P} :
                    Q \in DOMAIN projects' /\ projects'[Q] = projects[Q]
               /\ h.pc = "read" => ReadDocuments(projects', P) = Changed(h)
          /\ (writers'[w].status = 200 /\ AloneInProject(w)') =>
               ReadDocuments(projects', P) = Changed(writers'[w])]_vars

\* two uploads into one project have both responded 200 and the document of
\* one of them is not stored
C18_Witness ==
  \E w \in Writers, v \in Writers :
    /\ w # v
    /\ writers[w].op = "upload" /\ writers[w].status = 200
    /\ writers[v].op = "upload" /\ writers[v].status = 200
    /\ writers[w].projectId = writers[v].projectId
    /\ Get(writers[v].document) \in
         Range(ReadDocuments(projects, writers[v].projectId))
    /\ Get(writers[w].document) \notin
         Range(ReadDocuments(projects, writers[w].projectId))

\* C19: the server serves no request while its migration is moving the
\* legacy data
C19_MigrationBeforeServing ==
  [][(Served /\ last'.op # "legacyUpload") => migration = "idle"]_vars

\* a step of the migration
Migrating == last'.op = "migrate" /\ served' = served

C21_DistinctIds ==
  \A P \in DOMAIN projects :
    LET docs == ReadDocuments(projects, P)
    IN \A i \in 1..Len(docs), j \in 1..Len(docs) :
         i # j => docs[i].id # docs[j].id /\ docs[i].filePath # docs[j].filePath

\* the replies of the gateway to a classification request: the replies the
\* analyses of the model receive and every error of the gateway
ClassificationReplies ==
  TypeReplies \cup
    {[ok |-> FALSE, content |-> <<>>, error |-> e] : e \in GatewayErrors}

\* the keys offered in the classification prompt
OfferedTypes == {t \in DOCUMENT_TYPES : t.key # "unclassified"}

\* the offered keys that a reply names, compared without case
NamedBy(content) ==
  {t \in OfferedTypes : ToLowerCase(t.chars) = ToLowerCase(Trim(content))}

\* C22: an analysis that succeeds on a stored unclassified document stores
\* as its type the offered key that the classification reply names, and
\* `pitch` when the reply names none or the classification request failed
\* with an error that is no moderation error; the type stored is an offered
\* key
C22_ClassificationReturnsNamedKey ==
  \A req \in Requests, id \in DocIds, model \in ModelBodies,
     typeReply \in ClassificationReplies :
    LET P == getProjectId(req)
        before == ReadDocuments(projects, P)
        k == FindIndex(before, id)
        reply == CHOOSE a \in AnalysisReplies : a.ok
        r == AnalyzeResult(projects, openai, req, id, model, typeReply, reply)
        type == ReadDocuments(r.tree, P)[k].type
        named == NamedBy(typeReply.content)
    IN (k # 0 /\ before[k].type = "unclassified" /\ r.status = 200) =>
         /\ type \in {t.key : t \in OfferedTypes}
         /\ (typeReply.ok /\ named # {}) => type \in {t.key : t \in named}
         /\ (typeReply.ok /\ named = {}) => type = "pitch"
         /\ (~typeReply.ok /\ ~IsModeration(typeReply.error)) => type = "pitch"

\* the slot C23 names for a type
SlotNamed(type) ==
  CASE type = "notes" -> "notes"
    [] type = "beatSheet" -> "beatSheet"
    [] type \in {"sessionNotes", "quickNote"} -> "sessionNotes"
    [] OTHER -> "default"

\* the prompt configurations of a slot: the built-in one and every
\* project's override
SlotConfigs(slot) ==
  {c \in DEFAULT_AI_PROMPTS : c.slot = slot}
    \cup {c \in UNION {Get(projects[P].settings).aiPrompts :
                         P \in {Q \in DOMAIN projects :
                                  IsSome(projects[Q].settings)}} :
            c.slot = slot}

\* C23: the completion request of a content analysis carries the model and
\* prompt of a configuration of the slot that the detected type selects,
\* whatever model the caller names; an analysis that responds 200 has stored
\* that model as aiModel; two analyses that differ in the caller's model
\* only send the same request
C23_SlotModelNotCallersModel ==
  /\ \A t \in DOCUMENT_TYPES, model \in Models, typeReply \in TypeReplies :
       LET reply == CHOOSE a \in AnalysisReplies : a.ok
           a == analyzeContentWithAI(projects, Pitch.originalname, t.key, model,
                                     typeReply, reply, DefaultId)
           detected == IF t.key = "unclassified"
                         THEN classifyDocumentWithAI(typeReply, model).type
                         ELSE t.key
       IN IsSome(a.sent) =>
            /\ \E c \in SlotConfigs(SlotNamed(detected)) :
                 Get(a.sent).model = c.model /\ Get(a.sent).prompt = c.prompt
            /\ a.model = Get(a.sent).model
  /\ \A req \in Requests, id \in DocIds, typeReply \in TypeReplies,
        reply \in AnalysisReplies :
       LET P == getProjectId(req)
           k == FindIndex(ReadDocuments(projects, P), id)
           r == AnalyzeResult(projects, openai, req, id, None, typeReply, reply)
           c == AnalyzeResult(projects, openai, req, id, Some(Claude),
                              typeReply, reply)
       IN /\ (IsSome(r.sent) /\ IsSome(c.sent)) =>
               r.sent = c.sent /\ r.tree = c.tree
          /\ \A x \in {r, c} :
               x.status = 200 =>
                 ReadDocuments(x.tree, P)[k].aiModel =
                   Some(Get(x.sent).model)

\* a document has been analysed and holds the model of its slot
C23_Witness ==
  /\ last.op = "analyze"
  /\ last.status = 200
  /\ LET docs == ReadDocuments(projects, last.projectId)
         d == docs[FindIndex(docs, last.id)]
     IN /\ d.aiEnhanced
        /\ \E c \in SlotConfigs(SlotNamed(d.type)) : d.aiModel = Some(c.model)

\* a model of the Claude family
ClaudeFamily(model) ==
  ModelIncludes(model, "claude") \/ ModelIncludes(model, "anthropic")

\* a failed completion request
Failed(error) ==
  [ok |-> FALSE, characters |-> None, themes |-> None, error |-> error]

\* C24: when the gateway answers the analysis request of a stored document
\* with a moderation error, analyzeContentWithAI throws the Claude guidance
\* if the model of the request is of the Claude family and the generic
\* moderation message if it is not; any other gateway error is thrown as it
\* came; a classification request blocked under a Claude-family model ends
\* in a Claude-specific message
C24_ClaudeGuidanceForClaudeModels ==
  \A P \in DOMAIN projects, model \in Models, e \in GatewayErrors :
    \A k \in 1..Len(ReadDocuments(projects, P)) :
      LET d == ReadDocuments(projects, P)[k]
          named == CHOOSE t \in TypeReplies : t.ok
          a == analyzeContentWithAI(projects, d.filename, d.type, model, named,
                                    Failed(e), DefaultProjectIdParameter(P))
          c == analyzeContentWithAI(projects, d.filename, d.type, model,
                                    [ok |-> FALSE, content |-> <<>>, error |-> e],
                                    CHOOSE r \in AnalysisReplies : r.ok,
                                    DefaultProjectIdParameter(P))
      IN /\ IsSome(a.sent)
         /\ a.thrown =
              IF ~IsModeration(e) THEN Some(e)
              ELSE IF ClaudeFamily(Get(a.sent).model) THEN Some(ClaudeGuidance)
              ELSE Some(GenericModeration)
         /\ (d.type = "unclassified" /\ IsModeration(e) /\ ClaudeFamily(model)) =>
              c.thrown \in {Some(ClaudeGuidance), Some(ClassificationBlocked)}

\* the entry of a type in the classification order
TypeEntry(key) ==
  CLASSIFICATION_ORDER[CHOOSE i \in 1..Len(CLASSIFICATION_ORDER) :
                         CLASSIFICATION_ORDER[i].key = key]

\* the filename holds a filename keyword of the type
FilenameMatches(key, filename) ==
  \E keyword \in TypeEntry(key).filenameKeywords :
    Contains(ToLowerCase(filename), keyword)

\* the text holds a content keyword of the type
ContentMatches(key, text) ==
  \E keyword \in TypeEntry(key).contentKeywords :
    Contains(ToLowerCase(text.chars), keyword)

\* the case of C25: `notes` in the filename, a pitch keyword in the content
NotesNamedPitchContent(c) ==
  /\ Contains(ToLowerCase(c.filename), <<"n","o","t","e","s">>)
  /\ ContentMatches("pitch", c.text)

\* C25 as stated: every document whose filename contains `notes` and whose
\* content matches a pitch content keyword is classified as notes
C25_NotesBeforePitch ==
  \A c \in Range(classification) :
    NotesNamedPitchContent(c) => c.type = "notes"

\* C25: a document whose filename contains `notes` and whose content matches
\* a pitch content keyword is classified as notes unless `legal`, which
\* precedes `notes` in the classification order, matches it by a filename
\* keyword or, in a text of 1000 words or more, by a content keyword; a
\* filename keyword of a type decides when no earlier type returns
C25_NotesUnlessLegal ==
  \A c \in Range(classification) :
    /\ ( /\ NotesNamedPitchContent(c)
         /\ ~FilenameMatches("legal", c.filename)
         /\ ~(ContentMatches("legal", c.text) /\ WordCount(c.text) >= 1000) )
         => c.type = "notes"
    /\ \A i \in 1..Len(CLASSIFICATION_ORDER) :
         ( /\ FilenameMatches(CLASSIFICATION_ORDER[i].key, c.filename)
           /\ \A j \in 1..(i - 1) :
                ~Returns(CLASSIFICATION_ORDER[j], c.filename, c.text) )
           => c.type = CLASSIFICATION_ORDER[i].key

\* a document named `notes` with a logline in a text long enough for a pitch
\* has been classified as notes
C25_Witness ==
  \E c \in Range(classification) :
    /\ NotesNamedPitchContent(c)
    /\ WordCount(c.text) >= TypeEntry("pitch").min
    /\ ~FilenameMatches("legal", c.filename)
    /\ c.type = "notes"

\* C26: when checkProjectSelection completes on a successfully loaded list
\* that is not empty, the current project id (the stored one, or `default`
\* when none is stored) is a listed project: storage is left as it was when
\* that id was listed and holds the first listed id otherwise; on an empty
\* list the page is the management page afterwards; and the X-Project-Id
\* of getHeaders, which fetchWithProject sends, is that current id
CurrentId(page) == IF IsSome(page.stored) THEN Get(page.stored) ELSE DefaultId

C26_SelectionIsListed ==
  [][ /\ (browser.pc = "fetched" /\ browser'.pc = "idle") =>
          LET response == browser.response
              list == response.projects
              loaded == ~response.thrown /\ response.success
          IN /\ (loaded /\ Len(list) > 0) =>
                  /\ CurrentId(browser') \in Range(list)
                  /\ CurrentId(browser) \in Range(list)
                        => browser'.stored = browser.stored
                  /\ CurrentId(browser) \notin Range(list)
                        => browser'.stored = Some(list[1])
                  /\ browser'.pathname = browser.pathname
             /\ (loaded /\ Len(list) = 0) =>
                  /\ browser'.pathname = ManagementPage
                  /\ browser'.stored = browser.stored
      /\ getHeaders(browser').XProjectId = CurrentId(browser')
      /\ (served' # served /\ last'.op = "fetchWithProject")
            => last'.projectId = CurrentId(browser)
    ]_vars

\* the check has completed on a loaded list and the page holds the first
\* listed project, another project having been deleted by the last request
C26_Witness ==
  /\ browser.pc = "idle"
  /\ browser.response.success
  /\ Len(browser.response.projects) > 0
  /\ browser.stored = Some(browser.response.projects[1])
  /\ last.op = "deleteProject"
  /\ last.status = 200
  /\ last.projectId # browser.response.projects[1]

\* C27: every stored document has a list of characters and a list of themes,
\* so that the timeline of every project responds 200 and the comparison of
\* two stored documents whose files can be read responds 200
Readable(tree, projectId, document) ==
  IsSome(extractTextFromFile(tree[projectId].uploads, document.filePath,
                             document.filename))

C27_CharactersAndThemesAreLists ==
  /\ \A p \in DOMAIN projects :
       \A k \in 1..Len(ReadDocuments(projects, p)) :
         /\ IsSome(ReadDocuments(projects, p)[k].characters)
         /\ IsSome(ReadDocuments(projects, p)[k].themes)
  /\ \A req \in Requests :
       /\ TimelineResult(projects, req).status = 200
       /\ LET p == getProjectId(req)
              docs == GetDocuments(projects, req)
          IN \A i, j \in 1..Len(docs) :
               (Readable(projects, p, docs[i]) /\ Readable(projects, p, docs[j]))
               => CompareResult(projects, openai, req, docs[i].id, docs[j].id,
                                None).status = 200

\* C28: a request answered with status 400, 404 or 500 leaves the stored
\* documents list of every project exactly as it was before the request
Refused == {400, 404, 500}

C28_RefusedRequestsKeepDocuments ==
  [][ (served' # served /\ last'.status \in Refused) =>
        /\ \A p \in DOMAIN projects :
             ReadDocuments(projects', p) = ReadDocuments(projects, p)
        /\ \A p \in DOMAIN projects' :
             ReadDocuments(projects', p) = ReadDocuments(projects, p)
        /\ legacy'.data = legacy.data
    ]_vars

\* an analysis of a stored document has just been answered with 500
C28_Witness ==
  /\ last.op = "analyze"
  /\ last.status = 500
  /\ FindIndex(ReadDocuments(projects, last.projectId), last.id) # 0

\* C29: a document whose DELETE has responded success is absent from the
\* stored documents of its project in every later state, whatever requests
\* that read the documents before the delete write afterwards; and every
\* stored document has its upload file in the uploads directory
C29_DeletedStaysDeleted ==
  /\ \A w \in Writers :
       (writers[w].op = "delete" /\ writers[w].status = 200) =>
         FindIndex(ReadDocuments(projects, writers[w].projectId),
                   writers[w].id) = 0
  /\ \A p \in DOMAIN projects :
       \A k \in 1..Len(ReadDocuments(projects, p)) :
         \E f \in projects[p].uploads :
           f.name = ReadDocuments(projects, p)[k].filePath

\* C30: of two POST /api/projects requests that derive the same project id
\* at most one responds success, the other responding 400; and the write of
\* a creation never replaces the metadata file or the documents file of a
\* project that another creation has answered success for
C30_OneCreationPerId ==
  [][ /\ \A w \in Writers, v \in Writers :
           (/\ w # v
            /\ writers'[w].op = "create" /\ writers'[v].op = "create"
            /\ writers'[w].projectId = writers'[v].projectId
            /\ writers'[w].pc = "done" /\ writers'[v].pc = "done")
           => /\ {writers'[w].status, writers'[v].status} \subseteq {200, 400}
              /\ ~(writers'[w].status = 200 /\ writers'[v].status = 200)
      /\ \A w \in Writers :
           (writers[w].op = "create" /\ writers[w].pc = "read"
            /\ writers'[w].pc = "done") =>
             LET P == writers[w].projectId
             IN (\E v \in Writers :
                   /\ writers[v].op = "create" /\ writers[v].status = 200
                   /\ writers[v].projectId = P /\ P \in DOMAIN projects)
                => /\ projects'[P].meta = projects[P].meta
                   /\ projects'[P].data = projects[P].data
    ]_vars
====
